---- MODULE Spec2Model ----
(***************************************************************************)
(* Control logic of the OpenFold training job:                             *)
(*   src/openfold/train.py               parse_args, validation, training  *)
(*   src/openfold/openfold/lr_scheduler.py   AlphaFoldLRScheduler          *)
(*                                                                         *)
(* Spec      one run of `training(parse_args())`, as one process sees it   *)
(* SpecArgs  the assertions of parse_args on a wider range of arguments    *)
(* SpecLR    an AlphaFoldLRScheduler under an arbitrary sequence of calls  *)
(* SpecJob   every process of a run, the collectives as rendezvous         *)
(* SpecResume   the run of Spec under a schedule with warm-up and plateau  *)
(***************************************************************************)
EXTENDS Integers, Sequences, FiniteSets, TLC

(* ------------------------------ bounds -------------------------------- *)
\* largest --num_train_iters drawn
MaxTrainIters == 8
\* largest --gradient_accumulation_iters drawn (0 is drawn too: it is rejected)
MaxAccum == 2
\* largest --val_every_iters / --checkpoint_every_iters / --log_every_iters drawn
MaxInterval == 4
\* the validator alone is run on intervals in -MaxNegative..MaxArg
MaxArg == 5
MaxNegative == 1
\* the training directory holds the checkpoints of iterations 1..k, k <= MaxPrevIters
MaxPrevIters == 2

(* ---------------------------- arithmetic ------------------------------ *)
\* Python's a % b (the result takes the sign of the divisor); b = 0 raises
\* ZeroDivisionError and is never evaluated by the definitions below.
PyMod(a, b) == IF b > 0 THEN a % b ELSE 0 - ((0 - a) % (0 - b))

Abs(a) == IF a < 0 THEN 0 - a ELSE a

\* a is an exact multiple of b (the mathematical notion, used by properties only)
Multiple(a, b) == \E k \in (0 - Abs(a))..Abs(a) : a = k * b

SetMin(S) == CHOOSE m \in S : \A n \in S : m <= n
SetMax(S) == CHOOSE m \in S : \A n \in S : n <= m

(* ----------------------------- parse_args ----------------------------- *)
\* The command lines the validator is run on: every interval from
\* -MaxNegative to MaxArg.
ValidatorDomain ==
    [ num_train_iters             : (0 - MaxNegative)..MaxArg,
      gradient_accumulation_iters : (0 - MaxNegative)..MaxArg,
      val_every_iters             : (0 - MaxNegative)..MaxArg,
      checkpoint_every_iters      : (0 - MaxNegative)..MaxArg,
      log_every_iters             : (0 - MaxNegative)..MaxArg,
      warmup_lr_iters             : 0..MaxArg,
      save_process_logs           : {FALSE},
      distributed                 : {FALSE},
      precision                   : {"tf32"} ]

\* The command lines a run is started with.  val_every_iters is positive: the
\* loop divides by it.  warmup_lr_iters is read by parse_args and by the
\* construction of the scheduler only; the validator is run on its other
\* values under SpecArgs.
ArgsDomain ==
    [ num_train_iters             : 0..MaxTrainIters,
      gradient_accumulation_iters : 0..MaxAccum,
      val_every_iters             : 1..MaxInterval,
      checkpoint_every_iters      : 0..MaxInterval,
      log_every_iters             : (0 - 1)..MaxInterval,
      warmup_lr_iters             : {0},
      save_process_logs           : BOOLEAN,
      distributed                 : BOOLEAN,
      precision                   : {"tf32", "bf16"} ]

\* parse_args with the assertion of line 273 left out
parse_args_without_273(a) ==
    IF a.checkpoint_every_iters > 0
         /\ PyMod(a.val_every_iters, a.checkpoint_every_iters) /= 0 THEN 268
    ELSE IF a.log_every_iters > 0
         /\ PyMod(a.val_every_iters, a.log_every_iters) /= 0 THEN 271
    ELSE IF ~(a.gradient_accumulation_iters >= 1) THEN 275
    ELSE IF PyMod(a.num_train_iters, a.gradient_accumulation_iters) /= 0 THEN 276
    ELSE IF PyMod(a.val_every_iters, a.gradient_accumulation_iters) /= 0 THEN 277
    ELSE IF PyMod(a.checkpoint_every_iters, a.gradient_accumulation_iters) /= 0 THEN 278
    ELSE IF PyMod(a.log_every_iters, a.gradient_accumulation_iters) /= 0 THEN 279
    ELSE IF PyMod(a.warmup_lr_iters, a.gradient_accumulation_iters) /= 0 THEN 280
    ELSE 0

\* parse_args with the assertion of line 278 left out
parse_args_without_278(a) ==
    IF a.checkpoint_every_iters > 0
         /\ PyMod(a.val_every_iters, a.checkpoint_every_iters) /= 0 THEN 268
    ELSE IF a.log_every_iters > 0
         /\ PyMod(a.val_every_iters, a.log_every_iters) /= 0 THEN 271
    ELSE IF a.log_every_iters > 0 /\ a.checkpoint_every_iters > 0
         /\ PyMod(a.checkpoint_every_iters, a.log_every_iters) /= 0 THEN 273
    ELSE IF ~(a.gradient_accumulation_iters >= 1) THEN 275
    ELSE IF PyMod(a.num_train_iters, a.gradient_accumulation_iters) /= 0 THEN 276
    ELSE IF PyMod(a.val_every_iters, a.gradient_accumulation_iters) /= 0 THEN 277
    ELSE IF PyMod(a.log_every_iters, a.gradient_accumulation_iters) /= 0 THEN 279
    ELSE IF PyMod(a.warmup_lr_iters, a.gradient_accumulation_iters) /= 0 THEN 280
    ELSE 0

\* parse_args with the operands of the assertion of line 268 exchanged
parse_args_268_exchanged(a) ==
    IF a.checkpoint_every_iters > 0
         /\ PyMod(a.checkpoint_every_iters, a.val_every_iters) /= 0 THEN 268
    ELSE IF a.log_every_iters > 0
         /\ PyMod(a.val_every_iters, a.log_every_iters) /= 0 THEN 271
    ELSE IF a.log_every_iters > 0 /\ a.checkpoint_every_iters > 0
         /\ PyMod(a.checkpoint_every_iters, a.log_every_iters) /= 0 THEN 273
    ELSE IF ~(a.gradient_accumulation_iters >= 1) THEN 275
    ELSE IF PyMod(a.num_train_iters, a.gradient_accumulation_iters) /= 0 THEN 276
    ELSE IF PyMod(a.val_every_iters, a.gradient_accumulation_iters) /= 0 THEN 277
    ELSE IF PyMod(a.checkpoint_every_iters, a.gradient_accumulation_iters) /= 0 THEN 278
    ELSE IF PyMod(a.log_every_iters, a.gradient_accumulation_iters) /= 0 THEN 279
    ELSE IF PyMod(a.warmup_lr_iters, a.gradient_accumulation_iters) /= 0 THEN 280
    ELSE 0

\* parse_args with the accumulation assertions moved in front of the others
parse_args_reordered(a) ==
    IF ~(a.gradient_accumulation_iters >= 1) THEN 275
    ELSE IF PyMod(a.num_train_iters, a.gradient_accumulation_iters) /= 0 THEN 276
    ELSE IF PyMod(a.val_every_iters, a.gradient_accumulation_iters) /= 0 THEN 277
    ELSE IF PyMod(a.checkpoint_every_iters, a.gradient_accumulation_iters) /= 0 THEN 278
    ELSE IF PyMod(a.log_every_iters, a.gradient_accumulation_iters) /= 0 THEN 279
    ELSE IF PyMod(a.warmup_lr_iters, a.gradient_accumulation_iters) /= 0 THEN 280
    ELSE IF a.checkpoint_every_iters > 0
         /\ PyMod(a.val_every_iters, a.checkpoint_every_iters) /= 0 THEN 268
    ELSE IF a.log_every_iters > 0
         /\ PyMod(a.val_every_iters, a.log_every_iters) /= 0 THEN 271
    ELSE IF a.log_every_iters > 0 /\ a.checkpoint_every_iters > 0
         /\ PyMod(a.checkpoint_every_iters, a.log_every_iters) /= 0 THEN 273
    ELSE 0

\* The assertions of parse_args, in the order they are executed.  The value is
\* the line of the first assertion that fails (the run ends there with an
\* AssertionError), or 0 when the arguments are returned.
parse_args(a) ==
    IF a.checkpoint_every_iters > 0
         /\ PyMod(a.val_every_iters, a.checkpoint_every_iters) /= 0 THEN 268
    ELSE IF a.log_every_iters > 0
         /\ PyMod(a.val_every_iters, a.log_every_iters) /= 0 THEN 271
    ELSE IF a.log_every_iters > 0 /\ a.checkpoint_every_iters > 0
         /\ PyMod(a.checkpoint_every_iters, a.log_every_iters) /= 0 THEN 273
    ELSE IF ~(a.gradient_accumulation_iters >= 1) THEN 275
    ELSE IF PyMod(a.num_train_iters, a.gradient_accumulation_iters) /= 0 THEN 276
    ELSE IF PyMod(a.val_every_iters, a.gradient_accumulation_iters) /= 0 THEN 277
    ELSE IF PyMod(a.checkpoint_every_iters, a.gradient_accumulation_iters) /= 0 THEN 278
    ELSE IF PyMod(a.log_every_iters, a.gradient_accumulation_iters) /= 0 THEN 279
    ELSE IF PyMod(a.warmup_lr_iters, a.gradient_accumulation_iters) /= 0 THEN 280
    ELSE 0

\* a __main__ that calls training whatever parse_args did
after_parse_args_ignored(line) == "training"

\* __main__, training(parse_args()): training is entered only when parse_args
\* returned; its AssertionError leaves the program
after_parse_args(line) == IF line = 0 THEN "training" ELSE "exit"

(* ------------------------- external collaborators --------------------- *)
\* AlphaFoldConfig.from_preset: the two switches the controller reads
ConfigDomain == [ swa_enabled : BOOLEAN, gradient_clipping : BOOLEAN ]

\* --target_avg_lddt_ca_value (default 0.8) and the averages a validation
\* cycle can produce, in tenths
target_avg_lddt_ca_value == 8
MetricValues == {7, 8, 9}

\* number of processes of a distributed run (WORLD_SIZE)
WorldSize == 2

\* openfold.checkpoint_utils.resume_from_latest_checkpoint: the iteration of
\* the checkpoint with the highest iteration number found in the training
\* directory, 0 when there is none.
resume_from_latest_checkpoint(files) ==
    IF files = {} THEN 0 ELSE SetMax(files)

(* --------------------------- cadence of the loop ---------------------- *)
\* gradients zeroed at the last iteration of a group instead of the first
is_group_start_at_end(a, i) == PyMod(i, a.gradient_accumulation_iters) = 0

is_group_start(a, i) == PyMod(i - 1, a.gradient_accumulation_iters) = 0

is_group_end(a, i) == PyMod(i, a.gradient_accumulation_iters) = 0

\* logging enabled by the truth value of --log_every_iters (-1 is true)
is_logging_enabled_truthy(a) == a.log_every_iters /= 0

\* line 619
is_logging_enabled(a) == a.log_every_iters > 0

\* a loss reduction called in a single-process run too
dist_reduce_losses_entered_always(a, main) == is_logging_enabled(a)

\* a loss reduction that only the main process enters
dist_reduce_losses_entered_on_main(a, main) ==
    is_logging_enabled(a) /\ a.distributed /\ main

\* lines 799-800: dist_reduce_losses_avg is called under is_logging_enabled
\* and args.distributed
dist_reduce_losses_entered(a, main) == is_logging_enabled(a) /\ a.distributed

\* the logs saved at every iteration
is_log_save_every_iteration(a, i) == is_logging_enabled(a)

\* line 844
is_log_save(a, i) ==
    is_logging_enabled(a) /\ PyMod(i, a.log_every_iters) = 0

\* a save that every process performs
is_checkpoint_on_every_process(a, main, i) ==
    /\ a.checkpoint_every_iters > 0
    /\ PyMod(i, a.checkpoint_every_iters) = 0

is_checkpoint(a, main, i) ==
    /\ main
    /\ a.checkpoint_every_iters > 0
    /\ PyMod(i, a.checkpoint_every_iters) = 0

\* resume without the assertion of line 600
resume_unchecked(a, n) == TRUE

\* the assertion after resume_from_latest_checkpoint
resume_aligned(a, n) == PyMod(n, a.gradient_accumulation_iters) = 0

\* a loop that starts at the iteration of the checkpoint
first_iteration_repeated(n) == n

\* first_iteration
first_iteration(n) == n + 1

\* a validation cadence tested on iteration - 1, as is_train_val_cycle_start is
is_train_val_cycle_end_shifted(a, i) == PyMod(i - 1, a.val_every_iters) = 0

is_train_val_cycle_end(a, i) == PyMod(i, a.val_every_iters) = 0

\* the value the early-stop flag gets on the main process
reaches_target(avg) == avg >= target_avg_lddt_ca_value

Ev(e, i) == [ev |-> e, it |-> i]

\* the scheduler called after the optimizer step, as torch's schedulers are
TrainEvents_step_first(a, cfg, i) ==
    << Ev("seed", i), Ev("batch", i), Ev("forward", i) >>
    \o (IF is_group_start(a, i) THEN << Ev("zero_grad", i) >> ELSE << >>)
    \o << Ev("backward", i) >>
    \o (IF is_group_end(a, i)
          THEN (IF cfg.gradient_clipping THEN << Ev("clip", i) >> ELSE << >>)
               \o << Ev("opt_step", i), Ev("lr", i) >>
               \o (IF cfg.swa_enabled THEN << Ev("swa", i) >> ELSE << >>)
          ELSE << >>)

\* events of the forward/backward part of iteration i, in program order
TrainEvents(a, cfg, i) ==
    << Ev("seed", i), Ev("batch", i), Ev("forward", i) >>
    \o (IF is_group_start(a, i) THEN << Ev("zero_grad", i) >> ELSE << >>)
    \o << Ev("backward", i) >>
    \o (IF is_group_end(a, i)
          THEN (IF cfg.gradient_clipping THEN << Ev("clip", i) >> ELSE << >>)
               \o << Ev("lr", i), Ev("opt_step", i) >>
               \o (IF cfg.swa_enabled THEN << Ev("swa", i) >> ELSE << >>)
          ELSE << >>)

(* ------------------------- AlphaFoldLRScheduler ------------------------ *)
\* Learning rates are integers counting 1/LrResolution of the last decimal
\* digit round(x, 10) keeps; intermediate values are exact rationals << n, d >>
\* with d > 0.
LrResolution == 10
MaxLr == 25
MaxFinalLr == 1
MaxWarmupLength == 3
MaxInitLrLength == 4
MaxLrIteration == 5
MaxLrCalls == 3
NumParamGroups == 2

LrDomain ==
    [ init_lr          : 1..MaxLr,
      final_lr         : 0..MaxFinalLr,
      warmup_lr_length : 0..MaxWarmupLength,
      init_lr_length   : 0..MaxInitLrLength ]

RInt(n) == << n, 1 >>
RAdd(x, y) == << x[1] * y[2] + y[1] * x[2], x[2] * y[2] >>
RSub(x, y) == << x[1] * y[2] - y[1] * x[2], x[2] * y[2] >>
RMulInt(x, k) == << x[1] * k, x[2] >>
RDivInt(x, k) == << x[1], x[2] * k >>

\* the integer nearest to n/d, ties to the even one (Python's round)
RoundHalfEven(n, d) ==
    LET q == n \div d
        r == n - q * d
    IN  IF 2 * r < d THEN q
        ELSE IF 2 * r > d THEN q + 1
        ELSE IF q % 2 = 0 THEN q ELSE q + 1

\* round(x, 10) of the rational x
round10(x) == RoundHalfEven(x[1], x[2] * LrResolution) * LrResolution

\* torch.linspace(start, end, steps)[k], 0 <= k < steps
linspace(start, end, steps, k) ==
    IF steps = 1 THEN start
    ELSE RAdd(start, RMulInt(RDivInt(RSub(end, start), steps - 1), k))

\* self._warmup_linspace[k], as built by __init__
warmup_linspace(s, k) ==
    linspace(RDivInt(RInt(s.init_lr),
                     IF s.warmup_lr_length > 1 THEN s.warmup_lr_length ELSE 1),
             RInt(s.init_lr), s.warmup_lr_length, k)

\* the rate of __call__ with the comparisons of its first branch strict
lr_value_strict(s, i) ==
    IF i < s.warmup_lr_length THEN round10(warmup_linspace(s, i - 1))
    ELSE IF i <= s.init_lr_length THEN s.init_lr
    ELSE s.final_lr

\* __call__: the rate determined for the given iteration
lr_value_of(s, i) ==
    IF i <= s.warmup_lr_length THEN round10(warmup_linspace(s, i - 1))
    ELSE IF i <= s.init_lr_length THEN s.init_lr
    ELSE s.final_lr

\* a scheduler that writes on every call
lr_differs_always(value, prev) == TRUE

\* a scheduler that takes an empty cache for the rate in force
lr_differs_cached(value, prev) == prev /= << >> /\ << value >> /= prev

\* __call__: "Set only if differs from the previous call"; prev is << >>
\* for None and << v >> for the value v
lr_differs(value, prev) == << value >> /= prev

\* a set_learning_rate that writes optimizer.param_groups[0] only
set_learning_rate_first_group(groups, value) ==
    [g \in DOMAIN groups |-> IF g = 1 THEN value ELSE groups[g]]

\* set_learning_rate
set_learning_rate(groups, value) == [g \in DOMAIN groups |-> value]

(* ------------------------------- state -------------------------------- *)
VARIABLES
    args,            \* the command line (argparse.Namespace)
    pc,              \* position of the process in __main__ / training
    failure,         \* "none", or the error that ended the run
    reported,        \* the assertion lines the AssertionError of parse_args names
    parseCalls,      \* number of times parse_args has run
    pgInitialized,   \* torch.distributed.init_process_group has been called
    deviceSet,       \* torch.cuda.set_device has been called
    modelOnDevice,   \* create_alphafold_module has moved the model to the device
    is_main_process, \* rank == main_rank, TRUE in a single-process run
    alphafold_config,
    found,           \* checkpoints resume found in the training directory
    num_prev_iters,  \* result of resume_from_latest_checkpoint
    range_next,      \* next value of range(first_iteration, num_train_iters + 1)
    iteration,       \* loop variable (0 before the loop)
    grad_passes,     \* backward passes summed in .grad since the last zero_grad
    pending,         \* backward passes since the last optimizer step
    train_logs,      \* in-memory buffers and the files they are appended to
    process_logs,
    train_log_file,
    process_log_file,
    val_avg_lddt_ca, \* aggregate of the last validation cycle (0 before)
    stop_training_flag,
    saved,           \* calls of save_checkpoint_from_training, in order
    trace,           \* events of the run, in program order
    sched,           \* the scheduler's init_lr, final_lr, warmup_lr_length, init_lr_length
    param_groups,    \* optimizer.param_groups[g]["lr"]
    prev_lr_value,   \* self._prev_lr_value: << >> for None, << v >> for v
    lr_iteration,    \* argument of the last call (0 before the first)
    lr_value,        \* rate the last call determined
    lr_wrote,        \* the last call called set_learning_rate
    last_written,    \* rate of the last set_learning_rate: << >> or << v >>
    lr_calls,        \* number of calls so far
    job_pc,          \* per process of a job: its position in __main__ / training
    job_failure,     \* per process: "none", or what ended it
    job_status,      \* per process: exit status (0 while it runs)
    job_range_next,  \* per process: next value of the range of the loop
    job_iteration,   \* per process: loop variable
    job_first,       \* per process: first_iteration
    job_ncoll,       \* per process: collective calls completed
    job_mode,        \* per process: "train" or "eval", the mode of the model
    job_manual_seed, \* per process: argument of the last torch.manual_seed
    job_flag,        \* per process: stop_training_flag, -1 while unbound
    job_avg,         \* val_avg_lddt_ca of the main process (0 before)
    job_val_size,    \* val_size of the main process (0 before)
    job_events,      \* what the processes have done: set of [ev, p, it]
    job_checkpoints  \* iterations of the checkpoints in the training directory

vars == << args, pc, failure, reported, parseCalls,
           pgInitialized, deviceSet, modelOnDevice, is_main_process,
           alphafold_config, found, num_prev_iters, range_next, iteration,
           grad_passes, pending, train_logs, process_logs, train_log_file,
           process_log_file, val_avg_lddt_ca, stop_training_flag, saved, trace,
           sched, param_groups, prev_lr_value, lr_iteration, lr_value, lr_wrote,
           last_written, lr_calls,
           job_pc, job_failure, job_status, job_range_next, job_iteration,
           job_first, job_ncoll, job_mode, job_manual_seed, job_flag, job_avg,
           job_val_size, job_events, job_checkpoints >>

jobVars == << job_pc, job_failure, job_status, job_range_next, job_iteration,
              job_first, job_ncoll, job_mode, job_manual_seed, job_flag,
              job_avg, job_val_size, job_events, job_checkpoints >>

lrVars == << sched, param_groups, prev_lr_value, lr_iteration, lr_value,
             lr_wrote, last_written, lr_calls >>

setupVars == << pgInitialized, deviceSet, modelOnDevice, is_main_process,
                alphafold_config, found, num_prev_iters >>
gradVars == << grad_passes, pending >>
logVars == << train_logs, process_logs, train_log_file, process_log_file >>
valVars == << val_avg_lddt_ca, stop_training_flag >>

\* the run before __main__ starts
RunInit ==
    /\ pc = "main"
    /\ failure = "none"
    /\ reported = {}
    /\ parseCalls = 0
    /\ pgInitialized = FALSE
    /\ deviceSet = FALSE
    /\ modelOnDevice = FALSE
    /\ is_main_process = TRUE
    /\ alphafold_config = [swa_enabled |-> FALSE, gradient_clipping |-> FALSE]
    /\ found = {}
    /\ num_prev_iters = 0
    /\ range_next = 0
    /\ iteration = 0
    /\ grad_passes = 0
    /\ pending = 0
    /\ train_logs = << >>
    /\ process_logs = << >>
    /\ train_log_file = << >>
    /\ process_log_file = << >>
    /\ val_avg_lddt_ca = 0
    /\ stop_training_flag = FALSE
    /\ saved = << >>
    /\ trace = << >>

\* no job of several processes is followed
NoJob ==
    /\ job_pc = << >>
    /\ job_failure = << >>
    /\ job_status = << >>
    /\ job_range_next = << >>
    /\ job_iteration = << >>
    /\ job_first = << >>
    /\ job_ncoll = << >>
    /\ job_mode = << >>
    /\ job_manual_seed = << >>
    /\ job_flag = << >>
    /\ job_avg = 0
    /\ job_val_size = 0
    /\ job_events = {}
    /\ job_checkpoints = {}

\* AlphaFoldLRScheduler.__init__ with the arguments s, on an optimizer whose
\* parameter groups hold the rate lr0
SchedulerInit(s, lr0) ==
    /\ sched = s
    /\ param_groups = [g \in 1..NumParamGroups |-> lr0]
    /\ prev_lr_value = << >>
    /\ lr_iteration = 0
    /\ lr_value = 0
    /\ lr_wrote = FALSE
    /\ last_written = << >>
    /\ lr_calls = 0

DefaultSched ==
    [init_lr |-> 1, final_lr |-> 0, warmup_lr_length |-> 0, init_lr_length |-> 0]

DefaultArgs ==
    [ num_train_iters |-> 0, gradient_accumulation_iters |-> 1,
      val_every_iters |-> 1, checkpoint_every_iters |-> 0,
      log_every_iters |-> 0 - 1, warmup_lr_iters |-> 0,
      save_process_logs |-> FALSE, distributed |-> FALSE, precision |-> "tf32" ]

Init ==
    /\ args \in ArgsDomain
    /\ RunInit
    /\ NoJob
    /\ SchedulerInit(DefaultSched, 0)

\* AlphaFoldLRScheduler.__call__(i), lines 57-73
lr_scheduler(i) ==
    /\ lr_calls' = lr_calls + 1
    /\ lr_iteration' = i
    /\ lr_value' = lr_value_of(sched, i)
    /\ IF lr_differs(lr_value', prev_lr_value)
         THEN /\ param_groups' = set_learning_rate(param_groups, lr_value')
              /\ prev_lr_value' = << lr_value' >>
              /\ last_written' = << lr_value' >>
              /\ lr_wrote' = TRUE
         ELSE /\ lr_wrote' = FALSE
              /\ UNCHANGED << param_groups, prev_lr_value, last_written >>
    /\ UNCHANGED sched

\* __main__: the argument of training(...) is evaluated first
ParseArgs ==
    /\ pc = "main"
    /\ parseCalls' = parseCalls + 1
    /\ pc' = after_parse_args(parse_args(args))
    /\ IF parse_args(args) = 0
         THEN UNCHANGED << failure, reported >>
         ELSE /\ failure' = "cadence"
              /\ reported' = {parse_args(args)}
    /\ UNCHANGED << jobVars, lrVars, args, setupVars, range_next, iteration, gradVars, logVars,
                    valVars, saved, trace >>

\* training, lines 380-455: process group, rank, output directory, mllog
InitProcessGroup ==
    /\ pc = "training"
    /\ IF args.distributed
         THEN /\ pgInitialized' = TRUE
              /\ \E rank \in 0..(WorldSize - 1) : is_main_process' = (rank = 0)
              /\ trace' = Append(trace, Ev("init_process_group", 0))
         ELSE /\ UNCHANGED << pgInitialized, is_main_process, trace >>
    /\ pc' = "set_device"
    /\ UNCHANGED << jobVars, lrVars, args, failure, reported, parseCalls, deviceSet, modelOnDevice,
                    alphafold_config, found, num_prev_iters, range_next, iteration,
                    gradVars, logVars, valVars, saved >>

\* lines 457-469: device, numerical precision
SetDevice ==
    /\ pc = "set_device"
    /\ deviceSet' = TRUE
    /\ IF args.precision = "tf32"
         THEN pc' = "create" /\ UNCHANGED failure
         ELSE pc' = "exit" /\ failure' = "precision"
    /\ UNCHANGED << jobVars, lrVars, args, reported, parseCalls, pgInitialized, modelOnDevice,
                    is_main_process, alphafold_config, found, num_prev_iters, range_next,
                    iteration, gradVars, logVars, valVars, saved, trace >>

\* lines 471-589: config, model on the device, loss, optimizer, scheduler, SWA
CreateModel ==
    /\ pc = "create"
    /\ alphafold_config' \in ConfigDomain
    /\ modelOnDevice' = TRUE
    /\ pc' = "resume"
    /\ UNCHANGED << jobVars, lrVars, args, failure, reported, parseCalls, pgInitialized, deviceSet,
                    is_main_process, found, num_prev_iters, range_next, iteration,
                    gradVars, logVars, valVars, saved, trace >>

\* lines 591-600: resume from the latest checkpoint of the training directory
Resume ==
    /\ pc = "resume"
    /\ found' \in { 1..k : k \in 0..MaxPrevIters }
    /\ num_prev_iters' = resume_from_latest_checkpoint(found')
    /\ IF resume_aligned(args, num_prev_iters')
         THEN pc' = "prepare" /\ UNCHANGED failure
         ELSE pc' = "exit" /\ failure' = "resume"
    /\ UNCHANGED << jobVars, lrVars, args, reported, parseCalls, pgInitialized, deviceSet,
                    modelOnDevice, is_main_process, alphafold_config, range_next,
                    iteration, gradVars, logVars, valVars, saved, trace >>

\* lines 602-735: wrapper, log buffers, datasets, samplers, dataloaders,
\* first_iteration and the range of the loop
PrepareLoop ==
    /\ pc = "prepare"
    /\ train_logs' = << >>
    /\ process_logs' = << >>
    /\ range_next' = first_iteration(num_prev_iters)
    /\ pc' = "loop"
    /\ UNCHANGED << jobVars, lrVars, args, failure, reported, parseCalls, setupVars, iteration,
                    gradVars, train_log_file, process_log_file, valVars, saved,
                    trace >>

\* line 735: the for statement takes the next value of the range, or ends
LoopHead ==
    /\ pc = "loop"
    /\ IF range_next < args.num_train_iters + 1
         THEN /\ iteration' = range_next
              /\ range_next' = range_next + 1
              /\ pc' = "train"
         ELSE /\ pc' = "barrier"
              /\ UNCHANGED << iteration, range_next >>
    /\ UNCHANGED << jobVars, lrVars, args, failure, reported, parseCalls, setupVars, gradVars,
                    logVars, valVars, saved, trace >>

\* lines 736-796: seed, batch, forward, backward and, at a group end,
\* clipping, LR scheduler, optimizer step, SWA update
TrainStep ==
    /\ pc = "train"
    /\ trace' = trace \o TrainEvents(args, alphafold_config, iteration)
    /\ LET zeroed == IF is_group_start(args, iteration) THEN 0 ELSE grad_passes
       IN  /\ grad_passes' = zeroed + 1
           /\ pending' = IF is_group_end(args, iteration) THEN 0 ELSE pending + 1
    /\ IF is_group_end(args, iteration)
         THEN lr_scheduler(iteration)
         ELSE UNCHANGED lrVars
    /\ pc' = "log"
    /\ UNCHANGED << jobVars, args, failure, reported, parseCalls, setupVars, range_next,
                    iteration, logVars, valVars, saved >>

\* lines 798-850: loss reduction, log buffers, log files
LogStep ==
    /\ pc = "log"
    /\ trace' = trace
          \o (IF dist_reduce_losses_entered(args, is_main_process)
                THEN << Ev("reduce", iteration) >> ELSE << >>)
          \o (IF is_logging_enabled(args) /\ is_main_process
                THEN << Ev("train_log", iteration) >> ELSE << >>)
          \o (IF is_log_save(args, iteration)
                THEN << Ev("save_logs", iteration) >> ELSE << >>)
    /\ LET plogs == IF is_logging_enabled(args) /\ args.save_process_logs
                      THEN Append(process_logs, iteration) ELSE process_logs
           tlogs == IF is_main_process /\ is_logging_enabled(args)
                      THEN Append(train_logs, iteration) ELSE train_logs
       IN  IF is_log_save(args, iteration)
             THEN /\ process_log_file' = IF args.save_process_logs
                                           THEN process_log_file \o plogs
                                           ELSE process_log_file
                  /\ process_logs' = << >>
                  /\ train_log_file' = IF is_main_process
                                         THEN train_log_file \o tlogs
                                         ELSE train_log_file
                  /\ train_logs' = IF is_main_process THEN << >> ELSE tlogs
             ELSE /\ process_logs' = plogs
                  /\ train_logs' = tlogs
                  /\ UNCHANGED << process_log_file, train_log_file >>
    /\ pc' = "validation"
    /\ UNCHANGED << jobVars, lrVars, args, failure, reported, parseCalls, setupVars, range_next,
                    iteration, gradVars, valVars, saved >>

\* lines 860-934 with validation(), lines 344-377: the validation cycle, the
\* gather, the aggregate and its size check, the stop flag and its broadcast
Validation ==
    /\ pc = "validation"
    /\ IF ~is_train_val_cycle_end(args, iteration)
         THEN /\ pc' = "checkpoint"
              /\ UNCHANGED << failure, valVars, trace >>
         ELSE \E avg \in MetricValues, size_ok \in BOOLEAN, flag \in BOOLEAN :
              LET cycle == << Ev("validation", iteration) >>
                           \o (IF args.distributed
                                 THEN << Ev("gather", iteration) >> ELSE << >>)
                  rest  == (IF is_main_process /\ is_logging_enabled(args)
                              THEN << Ev("val_log", iteration) >> ELSE << >>)
                           \o (IF args.distributed
                                 THEN << Ev("broadcast", iteration) >> ELSE << >>)
                           \o << Ev("empty_cache", iteration) >>
              IN  IF is_main_process
                    THEN \* the flag is computed here
                         /\ flag = reaches_target(avg)
                         /\ (size_ok \/ args.distributed)
                         /\ IF size_ok
                              THEN /\ val_avg_lddt_ca' = avg
                                   /\ stop_training_flag' = flag
                                   /\ trace' = trace \o cycle \o rest
                                   /\ pc' = "checkpoint"
                                   /\ UNCHANGED failure
                              ELSE /\ val_avg_lddt_ca' = avg
                                   /\ trace' = trace \o cycle
                                   /\ pc' = "exit"
                                   /\ failure' = "val_size"
                                   /\ UNCHANGED stop_training_flag
                    ELSE \* the flag is the one the broadcast delivers
                         /\ avg = target_avg_lddt_ca_value
                         /\ size_ok
                         /\ stop_training_flag' = flag
                         /\ trace' = trace \o cycle \o rest
                         /\ pc' = "checkpoint"
                         /\ UNCHANGED << failure, val_avg_lddt_ca >>
    /\ UNCHANGED << jobVars, lrVars, args, reported, parseCalls, setupVars, range_next, iteration,
                    gradVars, logVars, saved >>

\* a call that passes the last aggregate whatever the iteration
save_checkpoint_from_training_last_metric(i, is_validation, avg) ==
    [ iteration |-> i, is_validation |-> is_validation, val_avg_lddt_ca |-> avg ]

\* lines 942-953: the arguments of save_checkpoint_from_training that tell
\* one checkpoint from another; val_avg_lddt_ca is 0 for None
save_checkpoint_from_training(i, is_validation, avg) ==
    [ iteration       |-> i,
      is_validation   |-> is_validation,
      val_avg_lddt_ca |-> IF is_validation THEN avg ELSE 0 ]

\* lines 936-953
SaveCheckpoint ==
    /\ pc = "checkpoint"
    /\ IF is_checkpoint(args, is_main_process, iteration)
         THEN LET is_validation == is_train_val_cycle_end(args, iteration)
              IN  /\ saved' = Append(saved,
                        save_checkpoint_from_training(iteration, is_validation,
                                                      val_avg_lddt_ca))
                  /\ trace' = Append(trace, Ev("checkpoint", iteration))
         ELSE UNCHANGED << saved, trace >>
    /\ pc' = "stop_check"
    /\ UNCHANGED << jobVars, lrVars, args, failure, reported, parseCalls, setupVars, range_next,
                    iteration, gradVars, logVars, valVars >>

\* lines 955-957
StopCheck ==
    /\ pc = "stop_check"
    /\ pc' = IF is_train_val_cycle_end(args, iteration) /\ stop_training_flag
               THEN "barrier" ELSE "loop"
    /\ UNCHANGED << jobVars, lrVars, args, failure, reported, parseCalls, setupVars, range_next,
                    iteration, gradVars, logVars, valVars, saved, trace >>

\* lines 959-961
Barrier ==
    /\ pc = "barrier"
    /\ trace' = IF args.distributed
                  THEN Append(trace, Ev("barrier", iteration)) ELSE trace
    /\ pc' = "run_stop"
    /\ UNCHANGED << jobVars, lrVars, args, failure, reported, parseCalls, setupVars, range_next,
                    iteration, gradVars, logVars, valVars, saved >>

\* lines 963-964
RunStop ==
    /\ pc = "run_stop"
    /\ trace' = Append(trace, Ev("run_stop", iteration))
    /\ pc' = "exit"
    /\ UNCHANGED << jobVars, lrVars, args, failure, reported, parseCalls, setupVars, range_next,
                    iteration, gradVars, logVars, valVars, saved >>

Next ==
    \/ ParseArgs
    \/ InitProcessGroup
    \/ SetDevice
    \/ CreateModel
    \/ Resume
    \/ PrepareLoop
    \/ LoopHead
    \/ TrainStep
    \/ LogStep
    \/ Validation
    \/ SaveCheckpoint
    \/ StopCheck
    \/ Barrier
    \/ RunStop

Spec == Init /\ [][Next]_vars

(* ============================ properties ============================== *)
\* ---- the cadence invariant, stated without the code's arithmetic ----
\* what the specification calls the cadence invariant is violated
CadenceInvariantViolated(a) ==
    \/ ~Multiple(a.num_train_iters, a.gradient_accumulation_iters)
    \/ ~Multiple(a.val_every_iters, a.gradient_accumulation_iters)
    \/ ~Multiple(a.checkpoint_every_iters, a.gradient_accumulation_iters)
    \/ ~Multiple(a.log_every_iters, a.gradient_accumulation_iters)
    \/ (a.checkpoint_every_iters > 0
          /\ ~Multiple(a.val_every_iters, a.checkpoint_every_iters))
    \/ (a.log_every_iters > 0
          /\ ~Multiple(a.val_every_iters, a.log_every_iters))

PositiveIntervals(a) ==
    /\ a.num_train_iters > 0
    /\ a.gradient_accumulation_iters >= 1
    /\ a.val_every_iters > 0
    /\ a.checkpoint_every_iters > 0
    /\ a.log_every_iters > 0

\* every constraint the validator checks, by the line that checks it
ViolatedConstraints(a) ==
    { l \in {268, 271, 273, 275, 276, 277, 278, 279, 280} :
        \/ l = 268 /\ a.checkpoint_every_iters > 0
                   /\ ~Multiple(a.val_every_iters, a.checkpoint_every_iters)
        \/ l = 271 /\ a.log_every_iters > 0
                   /\ ~Multiple(a.val_every_iters, a.log_every_iters)
        \/ l = 273 /\ a.log_every_iters > 0 /\ a.checkpoint_every_iters > 0
                   /\ ~Multiple(a.checkpoint_every_iters, a.log_every_iters)
        \/ l = 275 /\ a.gradient_accumulation_iters < 1
        \/ l = 276 /\ ~Multiple(a.num_train_iters, a.gradient_accumulation_iters)
        \/ l = 277 /\ ~Multiple(a.val_every_iters, a.gradient_accumulation_iters)
        \/ l = 278 /\ ~Multiple(a.checkpoint_every_iters, a.gradient_accumulation_iters)
        \/ l = 279 /\ ~Multiple(a.log_every_iters, a.gradient_accumulation_iters)
        \/ l = 280 /\ ~Multiple(a.warmup_lr_iters, a.gradient_accumulation_iters) }

DivisibilityLines == {268, 271, 273, 276, 277, 278, 279, 280}

Rejected == pc = "exit" /\ failure = "cadence"
Parsed == pc /= "main"

\* events of the training loop in the trace
LoopEvents == SelectSeq(trace, LAMBDA e : e.ev /= "init_process_group")

C2_AcceptsInvariant ==
    (Parsed /\ PositiveIntervals(args) /\ ~CadenceInvariantViolated(args))
        => ~Rejected

\* C2, amended: a configuration with positive intervals is accepted exactly
\* when it satisfies the cadence invariant and, further, checkpoint_every is a
\* multiple of log_every and warmup_lr_iters a multiple of accumulation_iters.
C2_AcceptsExactly ==
    (Parsed /\ PositiveIntervals(args)) =>
        (~Rejected <=>
            /\ ~CadenceInvariantViolated(args)
            /\ Multiple(args.checkpoint_every_iters, args.log_every_iters)
            /\ Multiple(args.warmup_lr_iters, args.gradient_accumulation_iters))

\* the accepted case of the specification, scaled: val_every = 4,
\* checkpoint_every = 2, accumulation_iters = 2, log_every = 2
C2_Witness ==
    /\ Parsed /\ ~Rejected
    /\ args.num_train_iters = 4
    /\ args.val_every_iters = 4
    /\ args.checkpoint_every_iters = 2
    /\ args.gradient_accumulation_iters = 2
    /\ args.log_every_iters = 2

\* C3 as stated: the failure of the validator lists every violated
\* divisibility constraint.
C3_ListsEveryViolation ==
    Rejected => (ViolatedConstraints(args) \cap DivisibilityLines) \subseteq reported

\* C3, amended: the failure of the validator names exactly one constraint,
\* the first violated one in the order the validator checks them.
C3_ListsFirstViolation ==
    Rejected => reported = { SetMin(ViolatedConstraints(args)) }

\* a rejected configuration that violates several divisibility constraints
C3_Witness ==
    /\ Rejected
    /\ Cardinality(ViolatedConstraints(args) \cap DivisibilityLines) >= 2

\* the configuration satisfies everything the validator requires
CadenceAccepted(a) == ViolatedConstraints(a) = {}

\* C4: parse_args runs exactly once, and whenever the process group has been
\* initialised or the device selected the validator has accepted the
\* configuration.
C4_ValidatedBeforeResources ==
    /\ Parsed => parseCalls = 1
    /\ (pgInitialized \/ deviceSet) =>
           /\ parseCalls = 1
           /\ failure /= "cadence"
           /\ CadenceAccepted(args)

\* a distributed run that has initialised its process group and set its device
C4_Witness == pgInitialized /\ deviceSet /\ args.distributed

\* the run has executed nothing of the training loop
NoIterationExecuted ==
    /\ iteration = 0
    /\ range_next = 0
    /\ LoopEvents = << >>
    /\ saved = << >>
    /\ grad_passes = 0

Resumed == pc \notin {"main", "training", "set_device", "create", "resume"}

\* C5: a resume iteration that is not a multiple of accumulation_iters ends
\* the run with a fatal error and without any training iteration; a run that
\* found no checkpoint resumes at 0 and passes the check.
C5_ResumeAligned ==
    /\ ~Multiple(num_prev_iters, args.gradient_accumulation_iters) =>
           /\ pc = "exit"
           /\ failure = "resume"
           /\ NoIterationExecuted
    /\ (Resumed /\ failure /= "resume") =>
           Multiple(num_prev_iters, args.gradient_accumulation_iters)
    /\ (Resumed /\ found = {}) =>
           /\ num_prev_iters = 0
           /\ failure /= "resume"

\* a resume at iteration 1 under accumulation_iters = 2
C5_Witness ==
    /\ failure = "resume"
    /\ num_prev_iters = 1
    /\ args.gradient_accumulation_iters = 2

NoResourceAllocated == ~pgInitialized /\ ~deviceSet /\ ~modelOnDevice

\* C6 as stated: a cadence violation and a misaligned resume iteration both
\* end the run before any device or distributed resource is allocated.
C6_ConfigErrorsBeforeResources ==
    failure \in {"cadence", "resume"} => NoResourceAllocated

\* C6, amended: a cadence violation ends the run before any device or
\* distributed resource is allocated; a misaligned resume iteration ends it
\* after the process group (of a distributed run), the device and the model
\* on the device have been allocated, and before any training iteration.
C6_CadenceBeforeResources ==
    /\ failure = "cadence" => NoResourceAllocated /\ NoIterationExecuted
    /\ failure = "resume" =>
           /\ deviceSet /\ modelOnDevice
           /\ args.distributed => pgInitialized
           /\ NoIterationExecuted

\* a distributed run ended by a misaligned resume iteration, resources allocated
C6_Witness ==
    /\ failure = "resume"
    /\ args.distributed /\ pgInitialized /\ deviceSet /\ modelOnDevice

(* --------------------- properties of the training loop ----------------- *)
\* the events named e, in the order of the trace
EventsOf(e) == SelectSeq(trace, LAMBDA x : x.ev = e)

\* number of events named e at iteration i
CountAt(e, i) == Len(SelectSeq(trace, LAMBDA x : x.ev = e /\ x.it = i))

\* the iterations whose body has been entered, in order
Executed ==
    LET seeds == EventsOf("seed")
    IN  [k \in 1..Len(seeds) |-> seeds[k].it]

\* the loop has been left without an error
LoopLeft == pc \in {"barrier", "run_stop"} \/ (pc = "exit" /\ failure = "none")

Max0(n) == IF n < 0 THEN 0 ELSE n

\* C9: the iterations executed are num_prev_iters + 1, num_prev_iters + 2,
\* ... in this order, none beyond train_iters; none at all when
\* num_prev_iters >= train_iters; and when the loop has been left, the last
\* one is train_iters or the validation iteration that raised the stop flag.
C9_ConsecutiveIterations ==
    LET ex == Executed
    IN  /\ \A k \in 1..Len(ex) :
               /\ ex[k] = num_prev_iters + k
               /\ ex[k] <= args.num_train_iters
        /\ num_prev_iters >= args.num_train_iters => ex = << >>
        /\ (Len(ex) > 0 /\ pc /= "train") => iteration = ex[Len(ex)]
        /\ pc = "train" => iteration = num_prev_iters + Len(ex) + 1
        /\ LoopLeft =>
               \/ Len(ex) = Max0(args.num_train_iters - num_prev_iters)
               \/ /\ Len(ex) > 0
                  /\ Multiple(iteration, args.val_every_iters)
                  /\ stop_training_flag
                  /\ CountAt("validation", iteration) = 1

\* a resumed run that has executed iterations 3..8 and left the loop
C9_Witness ==
    /\ LoopLeft
    /\ num_prev_iters = 2
    /\ args.num_train_iters = 8
    /\ Len(Executed) = 6
    /\ Executed[1] = 3

\* a resumed run with nothing left to do
C9_WitnessNothingLeft ==
    /\ LoopLeft
    /\ num_prev_iters = 2
    /\ args.num_train_iters = 1
    /\ Executed = << >>

FreshSingleProcess == Resumed /\ found = {} /\ ~args.distributed

\* the validation part / the checkpoint part of iteration i is behind the run
ValidationPassed(i) ==
    \/ i < iteration
    \/ i = iteration /\ pc \in {"checkpoint", "stop_check", "loop", "barrier",
                                "run_stop", "exit"}
CheckpointPassed(i) ==
    \/ i < iteration
    \/ i = iteration /\ pc \in {"stop_check", "loop", "barrier", "run_stop", "exit"}

\* position in the trace of the first event named e (0 when there is none)
FirstIndex(e) ==
    IF \E k \in 1..Len(trace) : trace[k].ev = e
      THEN SetMin({k \in 1..Len(trace) : trace[k].ev = e})
      ELSE 0

\* number of optimizer steps before the first validation cycle
StepsBeforeFirstValidation ==
    Cardinality({k \in 1..FirstIndex("validation") : trace[k].ev = "opt_step"})

\* C10: in a fresh single-process run, a validation cycle has run exactly
\* once at every executed iteration that is a multiple of val_every and at no
\* other, a checkpoint has been saved exactly once at every executed
\* iteration that is a multiple of an enabled checkpoint_every and at no
\* other, and val_every / accumulation_iters optimizer steps precede the
\* first validation.
C10_SingleProcessCadence ==
    FreshSingleProcess =>
        /\ \A i \in 1..(MaxTrainIters + 1) :
               /\ CountAt("validation", i) =
                      IF ValidationPassed(i) /\ i >= 1 /\ iteration >= i
                         /\ Multiple(i, args.val_every_iters)
                        THEN 1 ELSE 0
               /\ CountAt("checkpoint", i) =
                      IF CheckpointPassed(i) /\ iteration >= i
                         /\ args.checkpoint_every_iters > 0
                         /\ Multiple(i, args.checkpoint_every_iters)
                        THEN 1 ELSE 0
        /\ Len(saved) = Len(EventsOf("checkpoint"))
        /\ FirstIndex("validation") > 0 =>
               StepsBeforeFirstValidation * args.gradient_accumulation_iters
                   = args.val_every_iters

\* the scenario of the specification: train_iters = 8, accumulation_iters = 2,
\* val_every = 4, checkpoint_every = 4, run to the end
C10_Witness ==
    /\ FreshSingleProcess
    /\ pc = "exit" /\ failure = "none"
    /\ args.num_train_iters = 8
    /\ args.gradient_accumulation_iters = 2
    /\ args.val_every_iters = 4
    /\ args.checkpoint_every_iters = 4
    /\ iteration = 8
    /\ StepsBeforeFirstValidation = 2
    /\ CountAt("validation", 4) = 1 /\ CountAt("checkpoint", 4) = 1
    /\ CountAt("validation", 8) = 1 /\ CountAt("checkpoint", 8) = 1

\* the same scenario ended by the early stop at iteration 4
C10_WitnessEarlyStop ==
    /\ FreshSingleProcess
    /\ pc = "exit" /\ failure = "none"
    /\ args.num_train_iters = 8
    /\ args.gradient_accumulation_iters = 2
    /\ args.val_every_iters = 4
    /\ args.checkpoint_every_iters = 4
    /\ iteration = 4
    /\ CountAt("validation", 4) = 1 /\ CountAt("checkpoint", 4) = 1

(* -------------------------- the validator alone ----------------------- *)
InitArgs ==
    /\ args \in ValidatorDomain
    /\ RunInit
    /\ NoJob
    /\ SchedulerInit(DefaultSched, 0)

NextArgs == ParseArgs

SpecArgs == InitArgs /\ [][NextArgs]_vars

(* ------------------- the scheduler under arbitrary calls --------------- *)
runVars == << args, pc, failure, reported, parseCalls, setupVars, range_next,
              iteration, gradVars, logVars, valVars, saved, trace >>

InitLR ==
    /\ args = DefaultArgs
    /\ RunInit
    /\ NoJob
    /\ \E s \in LrDomain : \E lr0 \in {0, s.init_lr} : SchedulerInit(s, lr0)

\* one call of the scheduler, by any caller
SchedulerCall(i) ==
    /\ lr_calls < MaxLrCalls
    /\ lr_scheduler(i)
    /\ UNCHANGED << runVars, jobVars >>

NextLR == \E i \in 1..MaxLrIteration : SchedulerCall(i)

SpecLR == InitLR /\ [][NextLR]_vars
(* -------------------- properties of the scheduler ---------------------- *)
\* init_lr * i / warmup_length rounded to 10 decimal digits
LinearWarmup(s, i) == round10(<< s.init_lr * i, s.warmup_lr_length >>)

Called == lr_calls > 0

\* C7 as stated: the rate of iteration i is the rounded linear warm-up value
\* when i <= warmup_length, init_lr when warmup_length < i <= plateau_length
\* and final_lr when i > plateau_length; at iteration 1 it is (the rounded)
\* init_lr / warmup_length and at iteration warmup_length (the rounded) init_lr.
C7_ThreeSegments ==
    Called =>
        /\ lr_iteration <= sched.warmup_lr_length =>
               lr_value = LinearWarmup(sched, lr_iteration)
        /\ (sched.warmup_lr_length < lr_iteration
              /\ lr_iteration <= sched.init_lr_length) =>
               lr_value = sched.init_lr
        /\ lr_iteration > sched.init_lr_length =>
               lr_value = sched.final_lr
        /\ (lr_iteration = 1 /\ sched.warmup_lr_length >= 1) =>
               lr_value = round10(<< sched.init_lr, sched.warmup_lr_length >>)
        /\ lr_iteration = sched.warmup_lr_length =>
               lr_value = round10(<< sched.init_lr, 1 >>)

\* C7, amended: as stated, except that the rate is final_lr when i exceeds
\* both plateau_length and warmup_length: the warm-up takes precedence where
\* plateau_length < i <= warmup_length.
C7_WarmupFirst ==
    Called =>
        /\ lr_iteration <= sched.warmup_lr_length =>
               lr_value = LinearWarmup(sched, lr_iteration)
        /\ (sched.warmup_lr_length < lr_iteration
              /\ lr_iteration <= sched.init_lr_length) =>
               lr_value = sched.init_lr
        /\ (lr_iteration > sched.init_lr_length
              /\ lr_iteration > sched.warmup_lr_length) =>
               lr_value = sched.final_lr
        /\ (lr_iteration = 1 /\ sched.warmup_lr_length >= 1) =>
               lr_value = round10(<< sched.init_lr, sched.warmup_lr_length >>)
        /\ lr_iteration = sched.warmup_lr_length =>
               lr_value = round10(<< sched.init_lr, 1 >>)

\* a call inside a warm-up that is longer than the plateau bound, whose exact
\* value 2 * 24 / 3 = 16 is rounded to 20
C7_Witness ==
    /\ Called
    /\ sched.init_lr = 24
    /\ sched.warmup_lr_length = 3
    /\ sched.init_lr_length = 1
    /\ lr_iteration = 2
    /\ lr_value = 20

\* C8: a call writes the parameter groups only if the rate it computed
\* differs from the rate of the previous write; a call that computes the rate
\* last applied, in particular a repeated call with the same iteration,
\* leaves every parameter group and the last-applied cache unchanged.
C8_WriteOnlyOnChange ==
    [][ lr_calls' = lr_calls + 1 =>
          /\ lr_wrote' => << lr_value' >> /= last_written
          /\ ~lr_wrote' => param_groups' = param_groups
          /\ << lr_value' >> = last_written =>
                 /\ param_groups' = param_groups
                 /\ prev_lr_value' = prev_lr_value
                 /\ ~lr_wrote'
          /\ (Called /\ lr_iteration' = lr_iteration) =>
                 /\ param_groups' = param_groups
                 /\ prev_lr_value' = prev_lr_value
                 /\ ~lr_wrote' ]_vars

\* a call with another iteration of the same segment, after a write, that
\* did not write
C8_Witness ==
    /\ lr_calls >= 2
    /\ ~lr_wrote
    /\ last_written = << lr_value >>
    /\ param_groups = [g \in 1..NumParamGroups |-> lr_value]

(* ===================== the job: every process of a run ================= *)
\* One state machine per process of the run, each executing __main__, and
\* the collective calls that couple them.  The log buffers of a process are
\* followed in Spec.
MaxJobTrainIters == 4
MaxJobInterval == 2
\* len(validation_dataset)
ValSetSize == 2
\* --seed: the default and one other value
SeedValues == {1234567890, 42}
\* modulus of the seeds get_seed_from_string returns
SeedModulus == 2 ^ 16

JobArgsDomain ==
    [ num_train_iters             : 0..MaxJobTrainIters,
      gradient_accumulation_iters : 1..MaxAccum,
      val_every_iters             : 1..MaxJobInterval,
      checkpoint_every_iters      : 0..MaxJobInterval,
      log_every_iters             : {0, 1, MaxAccum},
      warmup_lr_iters             : {0},
      save_process_logs           : {FALSE},
      distributed                 : BOOLEAN,
      precision                   : {"tf32"},
      seed                        : SeedValues ]

main_rank == 0

\* rank is None in a single-process run
NoRank == 0 - 1

\* the processes of the run, named by their rank (0 for the single process)
Procs(a) == IF a.distributed THEN 0..(WorldSize - 1) ELSE {0}

rank_of(a, p) == IF a.distributed THEN p ELSE NoRank

\* openfold.helpers.get_seed_from_string: an integer determined by the
\* characters of the string alone; the string is given by its fields
get_seed_from_string(fields) ==
    LET h[k \in 0..Len(fields)] ==
            IF k = 0 THEN 7
            ELSE (h[k - 1] * 31 + (fields[k] % SeedModulus)) % SeedModulus
    IN  h[Len(fields)]

\* a seed string that counts the iterations of this run
forward_seed_string_counted(a, rank, i, first) == << a.seed, rank, i - first + 1 >>

\* f"forward_{args.seed}_{rank}_{iteration}"
forward_seed_string(a, rank, i, first) == << a.seed, rank, i >>

\* a handler that synchronises with the other processes before leaving
after_interrupt_barrier == "barrier"

\* __main__, except KeyboardInterrupt: print, exit(1)
after_interrupt == "exit"

JEv(e, p, i) == [ev |-> e, p |-> p, it |-> i]

\* positions at which a process of a distributed run is inside a collective
CollectivePcs == {"backward", "reduce", "gather", "broadcast", "barrier"}

\* collective calls that return at once
Rendezvous_none(p) == TRUE

\* q has entered the collective call p is in
Arrived(q, p) ==
    \/ job_ncoll[q] > job_ncoll[p]
    \/ job_ncoll[q] = job_ncoll[p] /\ job_pc[q] \in CollectivePcs

\* a collective call returns when every process of the group has entered it
Rendezvous(p) == args.distributed => \A q \in Procs(args) : Arrived(q, p)

Completed(p) ==
    job_ncoll' = [job_ncoll EXCEPT ![p] = IF args.distributed THEN @ + 1 ELSE @]

\* the sizes the gathered list of a distributed run can have
GatheredSizes == {ValSetSize - 1, ValSetSize}

InitJob ==
    /\ args \in JobArgsDomain
    /\ RunInit
    /\ SchedulerInit(DefaultSched, 0)
    /\ \E k \in {0, MaxPrevIters} : job_checkpoints = 1..k
    /\ job_pc = [p \in Procs(args) |-> "main"]
    /\ job_failure = [p \in Procs(args) |-> "none"]
    /\ job_status = [p \in Procs(args) |-> 0]
    /\ job_range_next = [p \in Procs(args) |-> 0]
    /\ job_iteration = [p \in Procs(args) |-> 0]
    /\ job_first = [p \in Procs(args) |-> 0]
    /\ job_ncoll = [p \in Procs(args) |-> 0]
    /\ job_mode = [p \in Procs(args) |-> "train"]
    /\ job_manual_seed = [p \in Procs(args) |-> 0 - 1]
    /\ job_flag = [p \in Procs(args) |-> 0 - 1]
    /\ job_avg = 0
    /\ job_val_size = 0
    /\ job_events = {}

\* the process ends with an uncaught exception: status 1
Raise(p, what) ==
    /\ job_pc' = [job_pc EXCEPT ![p] = "exit"]
    /\ job_failure' = [job_failure EXCEPT ![p] = what]
    /\ job_status' = [job_status EXCEPT ![p] = 1]

Goto(p, where) ==
    /\ job_pc' = [job_pc EXCEPT ![p] = where]
    /\ UNCHANGED << job_failure, job_status >>

Record(evs) == job_events' = job_events \cup evs

\* __main__: parse_args
JobMain(p) ==
    /\ job_pc[p] = "main"
    /\ IF parse_args(args) = 0 THEN Goto(p, "training") ELSE Raise(p, "cadence")
    /\ UNCHANGED << job_range_next, job_iteration, job_first, job_ncoll, job_mode,
                    job_manual_seed, job_flag, job_avg, job_val_size, job_events,
                    job_checkpoints, runVars, lrVars >>

\* training, lines 380-735: everything before the loop
JobSetup(p) ==
    /\ job_pc[p] = "training"
    /\ LET n == resume_from_latest_checkpoint(job_checkpoints)
       IN  IF resume_aligned(args, n)
             THEN /\ Goto(p, "loop")
                  /\ job_first' = [job_first EXCEPT ![p] = first_iteration(n)]
                  /\ job_range_next' =
                         [job_range_next EXCEPT ![p] = first_iteration(n)]
             ELSE /\ Raise(p, "resume")
                  /\ UNCHANGED << job_first, job_range_next >>
    /\ UNCHANGED << job_iteration, job_ncoll, job_mode, job_manual_seed, job_flag,
                    job_avg, job_val_size, job_events, job_checkpoints, runVars, lrVars >>

\* lines 735-777: the for statement, the seed, the batch, the forward pass,
\* zero_grad; loss.backward() of line 778 is entered (in a distributed run the
\* model is a DistributedDataParallel, line 604, whose backward pass reduces
\* the gradients over the processes).  Lines 959-961 when the range is
\* exhausted.
JobForward(p) ==
    /\ job_pc[p] = "loop"
    /\ IF job_range_next[p] < args.num_train_iters + 1
         THEN LET i == job_range_next[p]
              IN  /\ job_iteration' = [job_iteration EXCEPT ![p] = i]
                  /\ job_range_next' = [job_range_next EXCEPT ![p] = i + 1]
                  /\ job_manual_seed' = [job_manual_seed EXCEPT ![p] =
                         get_seed_from_string(
                             forward_seed_string(args, rank_of(args, p), i,
                                                 job_first[p]))]
                  /\ Record({JEv("seed", p, i)})
                  /\ Goto(p, "backward")
         ELSE /\ Goto(p, "barrier")
              /\ Record({JEv("loop_end", p, job_iteration[p])})
              /\ UNCHANGED << job_iteration, job_range_next, job_manual_seed >>
    /\ UNCHANGED << job_first, job_ncoll, job_mode, job_flag, job_avg,
                    job_val_size, job_checkpoints, runVars, lrVars >>

\* lines 778-807: the backward pass returns; at a group end clipping, LR
\* scheduler, optimizer step, SWA update; dist_reduce_losses_avg is entered
JobBackward(p) ==
    /\ job_pc[p] = "backward"
    /\ Rendezvous(p)
    /\ Completed(p)
    /\ Record(IF is_group_end(args, job_iteration[p])
                THEN {JEv("opt_step", p, job_iteration[p])} ELSE {})
    /\ Goto(p, IF dist_reduce_losses_entered(args, p = main_rank)
                 THEN "reduce" ELSE "validation")
    /\ UNCHANGED << job_range_next, job_iteration, job_first, job_mode,
                    job_manual_seed, job_flag, job_avg, job_val_size,
                    job_checkpoints, runVars, lrVars >>

\* lines 801-858: dist_reduce_losses_avg returns; logs
JobReduce(p) ==
    /\ job_pc[p] = "reduce"
    /\ Rendezvous(p)
    /\ Completed(p)
    /\ Record({JEv("reduce", p, job_iteration[p])})
    /\ Goto(p, "validation")
    /\ UNCHANGED << job_range_next, job_iteration, job_first, job_mode,
                    job_manual_seed, job_flag, job_avg, job_val_size,
                    job_checkpoints, runVars, lrVars >>

\* lines 860-889 with validation(), lines 344-377: eval(), the loop over the
\* validation set, train(); an error raised inside the loop leaves
\* validation() before train() is called.  dist_gather_val_metrics is entered.
JobValidation(p) ==
    /\ job_pc[p] = "validation"
    /\ IF ~is_train_val_cycle_end(args, job_iteration[p])
         THEN /\ Goto(p, "checkpoint")
              /\ UNCHANGED << job_mode, job_val_size, job_events >>
         ELSE \E raised \in BOOLEAN :
              IF raised
                THEN /\ job_mode' = [job_mode EXCEPT ![p] = "eval"]
                     /\ Raise(p, "validation")
                     /\ UNCHANGED << job_val_size, job_events >>
                ELSE /\ job_mode' = [job_mode EXCEPT ![p] = "train"]
                     /\ Record({JEv("validation", p, job_iteration[p])})
                     /\ job_val_size' = IF args.distributed THEN job_val_size
                                        ELSE ValSetSize
                     /\ Goto(p, IF args.distributed THEN "gather" ELSE "aggregate")
    /\ UNCHANGED << job_range_next, job_iteration, job_first, job_ncoll,
                    job_manual_seed, job_flag, job_avg, job_checkpoints, runVars, lrVars >>

\* lines 881-890: dist_gather_val_metrics returns
JobGather(p) ==
    /\ job_pc[p] = "gather"
    /\ Rendezvous(p)
    /\ Completed(p)
    /\ IF p = main_rank
         THEN job_val_size' \in GatheredSizes
         ELSE UNCHANGED job_val_size
    /\ Record({JEv("gather", p, job_iteration[p])})
    /\ Goto(p, "aggregate")
    /\ UNCHANGED << job_range_next, job_iteration, job_first, job_mode,
                    job_manual_seed, job_flag, job_avg, job_checkpoints, runVars, lrVars >>

\* a broadcast that leaves the tensor of the receiver as it was
broadcast_ignored(own, src) == own

\* torch.distributed.broadcast(tensor, src): the tensor of every process
\* holds the value of the tensor of src
broadcast(own, src) == src

\* the early-stop test with a strict comparison
flag_of_strict(avg) == IF avg > target_avg_lddt_ca_value THEN 1 ELSE 0

\* lines 917-921: torch.ones(1) or torch.zeros(1)
flag_of(avg) == IF reaches_target(avg) THEN 1 ELSE 0

\* an aggregate accepted whatever its size
val_size_unchecked(size) == TRUE

\* line 896: assert val_size == len(validation_dataset)
val_size_ok(size) == size = ValSetSize

\* what a process holds after the validation cycle of iteration i
Held(p, i, flag) == {JEv(IF flag = 1 THEN "stop" ELSE "continue", p, i)}

\* lines 891-925: on the main process the aggregate, the assertion on its
\* size, the validation log and the stop flag; zeros on the others; the
\* broadcast is entered
JobAggregate(p) ==
    /\ job_pc[p] = "aggregate"
    /\ LET i == job_iteration[p]
       IN  IF p = main_rank
             THEN \E avg \in MetricValues :
                  /\ job_avg' = avg
                  /\ IF val_size_ok(job_val_size)
                       THEN /\ job_flag' = [job_flag EXCEPT ![p] = flag_of(avg)]
                            /\ Record({JEv("eval_accuracy", p, i), JEv("decide", p, i)}
                                  \cup (IF is_logging_enabled(args)
                                          THEN {JEv("val_log", p, i)} ELSE {})
                                  \cup (IF args.distributed THEN {}
                                          ELSE Held(p, i, flag_of(avg))))
                            /\ Goto(p, IF args.distributed
                                         THEN "broadcast" ELSE "checkpoint")
                       ELSE /\ Raise(p, "val_size")
                            /\ UNCHANGED << job_flag, job_events >>
             ELSE /\ job_flag' = [job_flag EXCEPT ![p] = 0]
                  /\ Goto(p, "broadcast")
                  /\ UNCHANGED << job_avg, job_events >>
    /\ UNCHANGED << job_range_next, job_iteration, job_first, job_ncoll, job_mode,
                    job_manual_seed, job_val_size, job_checkpoints, runVars, lrVars >>

\* lines 925-934: the broadcast returns
JobBroadcast(p) ==
    /\ job_pc[p] = "broadcast"
    /\ Rendezvous(p)
    /\ Completed(p)
    /\ LET flag == broadcast(job_flag[p], job_flag[main_rank])
       IN  /\ job_flag' = [job_flag EXCEPT ![p] = flag]
           /\ Record({JEv("broadcast", p, job_iteration[p])}
                     \cup Held(p, job_iteration[p], flag))
    /\ Goto(p, "checkpoint")
    /\ UNCHANGED << job_range_next, job_iteration, job_first, job_mode,
                    job_manual_seed, job_avg, job_val_size, job_checkpoints, runVars, lrVars >>

\* lines 936-957: the checkpoint and the early stop
JobCheckpoint(p) ==
    /\ job_pc[p] = "checkpoint"
    /\ LET i == job_iteration[p]
           stop == is_train_val_cycle_end(args, i) /\ job_flag[p] = 1
       IN  /\ Record((IF is_checkpoint(args, p = main_rank, i)
                        THEN {JEv("checkpoint", p, i)} ELSE {})
                     \cup (IF stop THEN {JEv("break", p, i), JEv("loop_end", p, i)}
                                   ELSE {}))
           /\ job_checkpoints' = IF is_checkpoint(args, p = main_rank, i)
                                    THEN job_checkpoints \cup {i}
                                    ELSE job_checkpoints
           /\ Goto(p, IF stop THEN "barrier" ELSE "loop")
    /\ UNCHANGED << job_range_next, job_iteration, job_first, job_ncoll, job_mode,
                    job_manual_seed, job_flag, job_avg, job_val_size,
                    runVars, lrVars >>

\* lines 959-961: the barrier returns
JobBarrier(p) ==
    /\ job_pc[p] = "barrier"
    /\ Rendezvous(p)
    /\ Completed(p)
    /\ Record(IF args.distributed
                THEN {JEv("barrier", p, job_iteration[p])} ELSE {})
    /\ Goto(p, "run_stop")
    /\ UNCHANGED << job_range_next, job_iteration, job_first, job_mode,
                    job_manual_seed, job_flag, job_avg, job_val_size,
                    job_checkpoints, runVars, lrVars >>

\* lines 963-969: log_run_stop, training returns, the interpreter exits
JobRunStop(p) ==
    /\ job_pc[p] = "run_stop"
    /\ Record({JEv("run_stop", p, job_iteration[p])})
    /\ job_pc' = [job_pc EXCEPT ![p] = "exit"]
    /\ job_status' = [job_status EXCEPT ![p] = 0]
    /\ UNCHANGED << job_failure, job_range_next, job_iteration, job_first,
                    job_ncoll, job_mode, job_manual_seed, job_flag, job_avg,
                    job_val_size, job_checkpoints, runVars, lrVars >>

\* lines 970-972: a KeyboardInterrupt raised anywhere inside the try
JobInterrupt(p) ==
    /\ job_pc[p] /= "exit"
    /\ job_pc' = [job_pc EXCEPT ![p] = after_interrupt]
    /\ job_failure' = [job_failure EXCEPT ![p] = "interrupt"]
    /\ job_status' = [job_status EXCEPT ![p] =
                         IF after_interrupt = "exit" THEN 1 ELSE @]
    /\ UNCHANGED << job_range_next, job_iteration, job_first, job_ncoll, job_mode,
                    job_manual_seed, job_flag, job_avg, job_val_size, job_events,
                    job_checkpoints, runVars, lrVars >>

NextJob ==
    \/ \E p \in Procs(args) : JobMain(p)
    \/ \E p \in Procs(args) : JobSetup(p)
    \/ \E p \in Procs(args) : JobForward(p)
    \/ \E p \in Procs(args) : JobBackward(p)
    \/ \E p \in Procs(args) : JobReduce(p)
    \/ \E p \in Procs(args) : JobValidation(p)
    \/ \E p \in Procs(args) : JobGather(p)
    \/ \E p \in Procs(args) : JobAggregate(p)
    \/ \E p \in Procs(args) : JobBroadcast(p)
    \/ \E p \in Procs(args) : JobCheckpoint(p)
    \/ \E p \in Procs(args) : JobBarrier(p)
    \/ \E p \in Procs(args) : JobRunStop(p)
    \/ \E p \in Procs(args) : JobInterrupt(p)

SpecJob == InitJob /\ [][NextJob]_vars

(* ------------------------- properties of the job ----------------------- *)
Did(e, p, i) == JEv(e, p, i) \in job_events

\* iterations a process can be at
JobIterations == 1..(MaxJobTrainIters + 1)

\* the process has left the loop without an error
JobLoopLeft(p) ==
    \/ job_pc[p] \in {"barrier", "run_stop"}
    \/ job_pc[p] = "exit" /\ job_failure[p] = "none"
    \/ job_failure[p] = "interrupt" /\ \E i \in JobIterations : Did("break", p, i)

\* the process is past the early-stop test of its current iteration
PastStopTest(p) == job_pc[p] \in {"loop", "barrier", "run_stop"}
                   \/ (job_pc[p] = "exit" /\ job_failure[p] = "none")

\* C11: in a distributed run the processes that have completed the validation
\* cycle of an iteration hold the same stop decision for it, the one the main
\* process took; no process has left the loop at an iteration another one
\* continued from, and no process has started an iteration after the one at
\* which another process left the loop.
C11_SameStopDecision ==
    args.distributed =>
        \A p \in Procs(args), i \in JobIterations :
            /\ (Did("stop", p, i) \/ Did("continue", p, i)) =>
                   /\ Did("decide", main_rank, i)
                   /\ ~(Did("stop", p, i) /\ Did("continue", p, i))
                   /\ \A q \in Procs(args) :
                          /\ Did("stop", p, i) => ~Did("continue", q, i)
                          /\ Did("continue", p, i) => ~Did("stop", q, i)
                          /\ (job_iteration[q] = i /\ job_iteration[p] = i
                                /\ job_pc[q] = "checkpoint"
                                /\ job_pc[p] = "checkpoint") =>
                                 job_flag[p] = job_flag[q]
            /\ Did("break", p, i) =>
                   \A q \in Procs(args), j \in JobIterations :
                       /\ Did("seed", q, j) => j <= i
                       /\ Did("break", q, j) => j = i
                       /\ ~Did("continue", q, i)

\* every process of a distributed run has left the loop at iteration 2 of 4
C11_Witness ==
    /\ args.distributed
    /\ args.num_train_iters = 4
    /\ \A p \in Procs(args) :
           Did("stop", p, 2) /\ Did("break", p, 2) /\ Did("continue", p, 1)

\* C12: the stop flag of the main process is set exactly when the aggregate
\* it computed is at least the target; a process that holds a true decision
\* for an iteration leaves the loop after it and starts no further iteration,
\* a process that holds a false one goes on with the next iteration if there
\* is one; the loop is left only at a validation iteration with a true
\* decision, or when the range is exhausted.
C12_StopIffTarget ==
    /\ (job_flag[main_rank] >= 0 /\ job_failure[main_rank] /= "val_size") =>
           (job_flag[main_rank] = 1 <=> job_avg >= target_avg_lddt_ca_value)
    /\ \A p \in Procs(args), i \in JobIterations :
           /\ (Did("stop", p, i) /\ (PastStopTest(p) \/ job_iteration[p] > i)) =>
                  /\ Did("break", p, i)
                  /\ job_iteration[p] = i
                  /\ job_pc[p] /= "loop"
           /\ (Did("continue", p, i) /\ (PastStopTest(p) \/ job_iteration[p] > i)) =>
                  /\ ~Did("break", p, i)
                  /\ (job_iteration[p] = i /\ i < args.num_train_iters) =>
                         job_pc[p] = "loop" /\ job_range_next[p] = i + 1
           /\ Did("break", p, i) =>
                  /\ Multiple(i, args.val_every_iters)
                  /\ Did("validation", p, i)
                  /\ Did("stop", p, i)
                  /\ Did("decide", main_rank, i)
    /\ \A p \in Procs(args) :
           (JobLoopLeft(p) /\ job_failure[p] = "none") =>
               \/ Did("break", p, job_iteration[p])
               \/ job_range_next[p] >= args.num_train_iters + 1

\* a distributed run that left the loop at iteration 2 of 4 on an aggregate
\* equal to the target, after going on from iteration 1 on a lower one
C12_Witness ==
    /\ args.distributed
    /\ args.num_train_iters = 4
    /\ job_avg = target_avg_lddt_ca_value
    /\ \A p \in Procs(args) :
           /\ job_pc[p] = "exit" /\ job_status[p] = 0
           /\ Did("continue", p, 1) /\ Did("break", p, 2)

\* what follows the size assertion in the validation part of iteration i
AfterSizeCheck(p, i) ==
    /\ Did("validation", p, i)
    /\ \/ Did("eval_accuracy", p, i) \/ Did("val_log", p, i) \/ Did("decide", p, i)
       \/ Did("broadcast", p, i) \/ Did("stop", p, i) \/ Did("continue", p, i)
       \/ Did("checkpoint", p, i) \/ Did("break", p, i)

\* C13: when the main process has gone past the size assertion of its
\* current validation cycle, the list it aggregated has the size of the
\* validation set; on a mismatch the main process has ended with an error
\* (status 1) and, for that iteration, it has logged no validation result,
\* taken no stop decision and saved no checkpoint, and no process holds a stop
\* decision.
C13_GatheredSizeChecked ==
    LET m == main_rank
        i == job_iteration[m]
    IN  /\ AfterSizeCheck(m, i) => job_val_size = ValSetSize
        /\ (job_val_size /= ValSetSize /\ Did("gather", m, i)) =>
               /\ job_pc[m] \in {"aggregate", "exit"}
               /\ job_pc[m] = "exit" =>
                      /\ job_failure[m] \in {"val_size", "interrupt"}
                      /\ job_status[m] = 1
               /\ ~AfterSizeCheck(m, i)
               /\ \A q \in Procs(args) :
                      ~Did("stop", q, i) /\ ~Did("continue", q, i)
                          /\ ~Did("break", q, i)
        /\ job_failure[m] = "val_size" =>
               /\ job_val_size /= ValSetSize
               /\ job_pc[m] = "exit" /\ job_status[m] = 1
               /\ ~AfterSizeCheck(m, i)

\* the main process failed on the size of the second gathered list, at an
\* iteration at which a checkpoint and a validation log were due
C13_Witness ==
    /\ job_failure[main_rank] = "val_size"
    /\ job_iteration[main_rank] = 2
    /\ Did("decide", main_rank, 1)
    /\ args.checkpoint_every_iters = 1
    /\ args.log_every_iters > 0

\* C14 as stated: whenever a process is outside validation(), whether the
\* last call returned or raised an error, its model is in training mode.
C14_TrainingModeRestored ==
    \A p \in Procs(args) : job_mode[p] = "train"

\* a process ended by an error raised inside validation() at iteration 2,
\* after a validation cycle that returned, its model left in evaluation mode
C14_Witness ==
    \E p \in Procs(args) :
        /\ job_failure[p] = "validation"
        /\ job_iteration[p] = 2
        /\ Did("validation", p, 1)
        /\ job_mode[p] = "eval"

\* the process has ended with an error it detected during the run
FailedMidRun(q) ==
    job_pc[q] = "exit" /\ job_failure[q] \in {"val_size", "validation"}

\* p is inside a collective call that q, which has ended, never entered
BlockedOn(p, q) ==
    /\ args.distributed
    /\ job_pc[p] \in CollectivePcs
    /\ job_pc[q] = "exit"
    /\ ~Arrived(q, p)

\* C15 as stated: no process is left inside a collective call that a process
\* ended by a fatal error of its own will never enter.
C15_NoProcessLeftBlocked ==
    \A p, q \in Procs(args) : FailedMidRun(q) => ~BlockedOn(p, q)

\* the main process ended on the size assertion while another process waits
\* in the broadcast of the same iteration
C15_Witness ==
    /\ job_failure[main_rank] = "val_size"
    /\ \E p \in Procs(args) :
           /\ job_pc[p] = "broadcast"
           /\ job_iteration[p] = job_iteration[main_rank]
           /\ BlockedOn(p, main_rank)

\* C16: the step in which a process is interrupted takes it to its exit with
\* status 1, whatever its position was, and completes no collective call and
\* performs nothing else of the run; an interrupted process stays ended.
C16_InterruptExits ==
    [][ \A p \in Procs(args) :
          /\ (job_failure'[p] = "interrupt" /\ job_failure[p] /= "interrupt") =>
                 /\ job_pc'[p] = "exit"
                 /\ job_status'[p] = 1
                 /\ job_ncoll' = job_ncoll
                 /\ job_events' = job_events
                 /\ job_checkpoints' = job_checkpoints
          /\ job_failure[p] = "interrupt" =>
                 /\ job_pc'[p] = "exit"
                 /\ job_status'[p] = 1
                 /\ job_ncoll'[p] = job_ncoll[p] ]_vars

\* a process interrupted inside the gather of iteration 1, ended with status 1
\* without having completed it
C16_Witness ==
    \E p \in Procs(args) :
        /\ args.distributed
        /\ job_failure[p] = "interrupt"
        /\ job_pc[p] = "exit" /\ job_status[p] = 1
        /\ Did("validation", p, 1) /\ ~Did("gather", p, 1)
        /\ \E q \in Procs(args) : job_pc[q] = "gather" /\ BlockedOn(q, p)

\* the last iteration whose body the process has entered (0 when none)
LastEntered(p) ==
    IF \E i \in JobIterations : Did("seed", p, i)
      THEN SetMax({i \in JobIterations : Did("seed", p, i)})
      ELSE 0

\* a step of the process other than its interruption
JobProgress(p) ==
    \/ JobMain(p) \/ JobSetup(p) \/ JobForward(p) \/ JobBackward(p)
    \/ JobReduce(p) \/ JobValidation(p) \/ JobGather(p) \/ JobAggregate(p)
    \/ JobBroadcast(p) \/ JobCheckpoint(p) \/ JobBarrier(p) \/ JobRunStop(p)

\* C17: in a distributed run a process that has logged the run stop has
\* passed the barrier, which it entered after its last iteration, on the
\* exhaustion of the range or on the early stop, and which every process had
\* entered by then; a process that has ended without an error has logged the
\* run stop and its exit status is 0; and while no process has failed or been
\* interrupted, some process can take a step until all have ended.
C17_BarrierBeforeReturn ==
    args.distributed =>
      /\ (\A q \in Procs(args) : job_failure[q] = "none") =>
             \/ \A q \in Procs(args) : job_pc[q] = "exit" /\ job_status[q] = 0
             \/ \E q \in Procs(args) : ENABLED JobProgress(q)
      /\ \A p \in Procs(args), i \in 0..(MaxJobTrainIters + 1) :
            /\ Did("run_stop", p, i) =>
                   /\ Did("barrier", p, i)
                   /\ \A q \in Procs(args) : \E j \in 0..(MaxJobTrainIters + 1) :
                          Did("loop_end", q, j)
            /\ Did("barrier", p, i) =>
                   /\ Did("loop_end", p, i)
                   /\ i = LastEntered(p)
            /\ Did("loop_end", p, i) =>
                   /\ i = LastEntered(p)
                   /\ \/ Did("break", p, i)
                      \/ i >= args.num_train_iters
                      \/ i = 0
            /\ (job_pc[p] = "exit" /\ job_failure[p] = "none") =>
                   /\ job_status[p] = 0
                   /\ Did("run_stop", p, job_iteration[p])
            /\ job_pc[p] = "run_stop" => Did("barrier", p, job_iteration[p])

\* every process of a distributed run has ended with status 0 after the early
\* stop at iteration 2 of 4
C17_Witness ==
    /\ args.distributed
    /\ args.num_train_iters = 4
    /\ \A p \in Procs(args) :
           /\ job_pc[p] = "exit" /\ job_status[p] = 0 /\ job_failure[p] = "none"
           /\ Did("break", p, 2) /\ Did("barrier", p, 2) /\ Did("run_stop", p, 2)

\* the same after the range was exhausted
C17_WitnessExhausted ==
    /\ args.distributed
    /\ args.num_train_iters = 4
    /\ \A p \in Procs(args) :
           /\ job_pc[p] = "exit" /\ job_status[p] = 0 /\ job_failure[p] = "none"
           /\ ~Did("break", p, 4) /\ Did("barrier", p, 4) /\ Did("run_stop", p, 4)

\* the seed determined by the global seed, the rank and the iteration alone
SeedOf(seed, rank, i) == get_seed_from_string(<< seed, rank, i >>)

\* C18: the seed a process has set for its current iteration is the value
\* determined by (global seed, rank, iteration), whatever checkpoint the run
\* resumed from and however many iterations it executed before.
C18_SeedFunctionOfIteration ==
    \A p \in Procs(args) :
        job_manual_seed[p] >= 0 =>
            job_manual_seed[p] =
                SeedOf(args.seed, rank_of(args, p), job_iteration[p])

\* rank 1 of a run resumed from the checkpoint of iteration 2, at its second
\* iteration, which is iteration 4
C18_Witness ==
    /\ args.distributed
    /\ job_first[1] = 3
    /\ job_iteration[1] = 4
    /\ job_manual_seed[1] = SeedOf(args.seed, 1, 4)
    /\ job_manual_seed[1] /= SeedOf(args.seed, 1, 2)
    /\ job_manual_seed[1] /= SeedOf(args.seed, 0, 4)

\* C20: every checkpoint saved at an iteration i was saved by the main
\* process, with checkpoint_every > 0 and i a multiple of it; no other process
\* has saved one, and none is saved when checkpoint_every <= 0.  The training
\* directory holds the checkpoints it held at the start and those.
C20_CheckpointByCoordinatorOnly ==
    /\ \A p \in Procs(args), i \in JobIterations :
           Did("checkpoint", p, i) =>
               /\ p = main_rank
               /\ args.checkpoint_every_iters > 0
               /\ Multiple(i, args.checkpoint_every_iters)
               /\ i \in job_checkpoints
    /\ \A i \in job_checkpoints :
           \/ Did("checkpoint", main_rank, i)
           \/ i <= MaxPrevIters /\ i < job_first[main_rank]
           \/ job_first[main_rank] = 0

\* a distributed run in which the main process has saved the checkpoints of
\* iterations 1 and 2 and rank 1 has gone through both without saving
C20_Witness ==
    /\ args.distributed
    /\ args.checkpoint_every_iters = 1
    /\ Did("checkpoint", main_rank, 1) /\ Did("checkpoint", main_rank, 2)
    /\ job_iteration[1] = 2 /\ job_pc[1] = "loop"
    /\ ~Did("checkpoint", 1, 1) /\ ~Did("checkpoint", 1, 2)

\* the collective calls named in the events of a process
CollectiveEvents == {"reduce", "gather", "broadcast", "barrier"}

\* C21: in a distributed run, two processes that are inside their k-th
\* collective call are inside the same call (the same operation of the same
\* iteration), and a collective call of its current iteration that a process
\* has completed has been completed or entered by every process that has not
\* been ended by an error or an interrupt: no two processes wait in
\* different collectives.
C21_SameCollectiveSequence ==
    args.distributed =>
        \A p \in Procs(args), q \in Procs(args) :
            /\ (job_pc[p] \in CollectivePcs /\ job_pc[q] \in CollectivePcs
                  /\ job_ncoll[p] = job_ncoll[q]) =>
                   /\ job_pc[p] = job_pc[q]
                   /\ job_iteration[p] = job_iteration[q]
            /\ \A e \in CollectiveEvents :
                   Did(e, p, job_iteration[p]) =>
                       \/ Did(e, q, job_iteration[p])
                       \/ job_pc[q] = e /\ job_iteration[q] = job_iteration[p]
                       \/ job_failure[q] /= "none"

\* a distributed run with logging whose processes have all returned after
\* the reduce, gather and broadcast of iteration 2 and the final barrier
C21_Witness ==
    /\ args.distributed
    /\ is_logging_enabled(args)
    /\ \A p \in Procs(args) :
           /\ job_pc[p] = "exit" /\ job_status[p] = 0
           /\ Did("reduce", p, 1) /\ Did("reduce", p, 2)
           /\ Did("gather", p, 2) /\ Did("broadcast", p, 2)
           /\ Did("barrier", p, 2)

(* ===================== runs resumed from a checkpoint ================== *)
\* The run of Spec with a schedule that has a warm-up, a plateau and a final
\* rate.  The scheduler the controller constructs (line 560) is followed as
\* an AlphaFoldLRScheduler whose warm-up is --warmup_lr_iters.
MaxResumeIters == 6

ResumeArgsDomain ==
    [ num_train_iters             : 0..MaxResumeIters,
      gradient_accumulation_iters : 1..MaxAccum,
      val_every_iters             : 1..MaxJobInterval,
      checkpoint_every_iters      : 0..MaxJobInterval,
      log_every_iters             : {0 - 1, 0},
      warmup_lr_iters             : 0..MaxAccum,
      save_process_logs           : {FALSE},
      distributed                 : BOOLEAN,
      precision                   : {"tf32"} ]

ResumeSchedule(a) ==
    [ init_lr          |-> MaxLr,
      final_lr         |-> MaxFinalLr,
      warmup_lr_length |-> a.warmup_lr_iters,
      init_lr_length   |-> MaxInitLrLength ]

\* the optimizer holds the rate 0 or the rate of the checkpoint it is loaded from
InitResume ==
    /\ args \in ResumeArgsDomain
    /\ RunInit
    /\ NoJob
    /\ \E lr0 \in {0, MaxLr} : SchedulerInit(ResumeSchedule(args), lr0)

SpecResume == InitResume /\ [][Next]_vars

\* what the controller does at an iteration
ControllerEvents ==
    {"seed", "zero_grad", "lr", "opt_step", "swa", "validation", "checkpoint"}

Controller(events) == SelectSeq(events, LAMBDA e : e.ev \in ControllerEvents)

\* the controller events of iteration i in the trace
ControllerEventsAt(i) ==
    SelectSeq(trace, LAMBDA e : e.it = i /\ e.ev \in ControllerEvents)

\* the controller events of iteration i of a run that started at iteration 1
UninterruptedEvents(a, cfg, main, i) ==
    Controller(TrainEvents(a, cfg, i))
    \o (IF is_train_val_cycle_end(a, i) THEN << Ev("validation", i) >> ELSE << >>)
    \o (IF is_checkpoint(a, main, i) THEN << Ev("checkpoint", i) >> ELSE << >>)

\* the body of iteration i has been executed to its end
IterationDone(i) ==
    \/ i < iteration
    \/ /\ i = iteration
       /\ \/ pc \in {"stop_check", "loop", "barrier", "run_stop"}
          \/ pc = "exit" /\ failure = "none"

\* the forward/backward part of the current iteration is behind the run
Trained == pc \in {"log", "validation", "checkpoint", "stop_check"}

PosOf(e, i) ==
    IF \E k \in 1..Len(trace) : trace[k] = Ev(e, i)
      THEN SetMin({k \in 1..Len(trace) : trace[k] = Ev(e, i)})
      ELSE 0

\* the forward/backward part of iteration i has been executed
BackwardDone(i) ==
    /\ i > num_prev_iters
    /\ i < iteration \/ (i = iteration /\ pc /= "train")

\* the states in which the events of the backward passes are examined: right
\* after the forward/backward part of an iteration, and at the end of the run
AfterBackward == pc \in {"log", "exit"}

\* C22: gradients have been zeroed exactly at the executed iterations i with
\* (i-1) a multiple of accumulation_iters and the optimizer stepped exactly at
\* those with i a multiple of it; every optimizer step comes after the
\* zeroing at the first iteration of its group and the backward passes of
\* the accumulation_iters iterations of the group, with no other zeroing or
\* step between, so that it applies the gradients of exactly
\* accumulation_iters passes; at a group end the order is backward pass,
\* clipping (when configured), LR schedule, optimizer step, weight-averager
\* update (when enabled).
C22_AccumulationGroups ==
    LET n == args.gradient_accumulation_iters
    IN  /\ AfterBackward =>
            \A i \in 1..(MaxResumeIters + 1) :
                   /\ CountAt("backward", i) = IF BackwardDone(i) THEN 1 ELSE 0
                   /\ CountAt("zero_grad", i) =
                          IF BackwardDone(i) /\ Multiple(i - 1, n) THEN 1 ELSE 0
                   /\ CountAt("opt_step", i) =
                          IF BackwardDone(i) /\ Multiple(i, n) THEN 1 ELSE 0
                   /\ CountAt("lr", i) = CountAt("opt_step", i)
                   /\ CountAt("clip", i) =
                          IF alphafold_config.gradient_clipping
                            THEN CountAt("opt_step", i) ELSE 0
                   /\ CountAt("swa", i) =
                          IF alphafold_config.swa_enabled
                            THEN CountAt("opt_step", i) ELSE 0
                   /\ CountAt("opt_step", i) = 1 =>
                          /\ i - n + 1 > num_prev_iters
                          /\ PosOf("zero_grad", i - n + 1) > 0
                          /\ PosOf("zero_grad", i - n + 1) < PosOf("backward", i - n + 1)
                          /\ \A j \in (i - n + 1)..i :
                                 /\ PosOf("backward", j) > 0
                                 /\ j > i - n + 1 =>
                                        /\ PosOf("backward", j - 1) < PosOf("backward", j)
                                        /\ CountAt("zero_grad", j) = 0
                                 /\ j < i => CountAt("opt_step", j) = 0
                          /\ PosOf("backward", i) < PosOf("lr", i)
                          /\ CountAt("clip", i) = 1 =>
                                 /\ PosOf("backward", i) < PosOf("clip", i)
                                 /\ PosOf("clip", i) < PosOf("lr", i)
                          /\ PosOf("lr", i) < PosOf("opt_step", i)
                          /\ CountAt("swa", i) = 1 =>
                                 PosOf("opt_step", i) < PosOf("swa", i)
        /\ (Trained /\ failure = "none" /\ Multiple(iteration, n)) =>
               grad_passes = n /\ pending = 0

\* a resumed run with clipping and averaging that has stepped at iteration 4
\* on the passes of iterations 3 and 4
C22_Witness ==
    /\ num_prev_iters = 2
    /\ args.gradient_accumulation_iters = 2
    /\ alphafold_config.gradient_clipping /\ alphafold_config.swa_enabled
    /\ iteration = 4 /\ pc = "log"
    /\ grad_passes = 2
    /\ CountAt("zero_grad", 3) = 1 /\ CountAt("opt_step", 4) = 1
    /\ CountAt("clip", 4) = 1 /\ CountAt("swa", 4) = 1
\* number of iterations whose forward/backward part this run has executed
BackwardCount ==
    IF iteration = 0 THEN 0
    ELSE (IF pc = "train" THEN iteration - 1 ELSE iteration) - num_prev_iters

\* C23: the LR schedule has been applied once for every accumulation group
\* this run has completed and not otherwise: each application is at an
\* iteration that is a multiple of accumulation_iters, is followed at once by
\* the optimizer step of that iteration, and has a greater argument than the
\* one before; the scheduler has been called by these applications only.
C23_ScheduleOncePerGroup ==
    LET lrs == EventsOf("lr")
        n   == args.gradient_accumulation_iters
    IN  iteration > 0 =>
            /\ Len(lrs) = BackwardCount \div n
            /\ lr_calls = Len(lrs)
            /\ \A k \in 1..Len(lrs) :
                   /\ Multiple(lrs[k].it, n)
                   /\ k > 1 => lrs[k - 1].it < lrs[k].it
                   /\ PosOf("lr", lrs[k].it) < Len(trace)
                   /\ trace[PosOf("lr", lrs[k].it) + 1] = Ev("opt_step", lrs[k].it)
            /\ lr_calls > 0 => lr_iteration = lrs[Len(lrs)].it
            /\ lr_calls = 0 => lr_iteration = 0

\* three applications, at the iterations 2, 4 and 6 of a run of groups of 2
C23_Witness ==
    /\ args.gradient_accumulation_iters = 2
    /\ num_prev_iters = 0
    /\ iteration = 6 /\ pc = "log"
    /\ lr_calls = 3 /\ lr_iteration = 6
    /\ Len(EventsOf("lr")) = 3
    /\ CountAt("lr", 5) = 0
(* ------------------------------ the logs ------------------------------- *)
\* number of iterations whose logging part (lines 798-850) has been executed
LogCount ==
    IF iteration = 0 THEN 0
    ELSE (IF pc \in {"train", "log"} THEN iteration - 1 ELSE iteration)
         - num_prev_iters

\* the iterations num_prev_iters + 1, ..., num_prev_iters + k
IterationsFrom(k) == [j \in 1..k |-> num_prev_iters + j]

\* the iterations of the events named e, in the order of the trace
IterationsOf(e) ==
    LET es == EventsOf(e) IN [k \in 1..Len(es) |-> es[k].it]

\* the records that have been due for writing: those of the iterations up to
\* the last executed multiple of log_every
DueRecords ==
    IF args.log_every_iters > 0
      THEN IterationsFrom(Max0(((num_prev_iters + LogCount)
                                   \div args.log_every_iters)
                               * args.log_every_iters - num_prev_iters))
      ELSE << >>

\* C24 as stated: a loss reduction is performed and a training log record is
\* appended only at iterations that are multiples of accumulation_iters.
C24_LoggedOnlyAtGroupEnd ==
    /\ \A k \in 1..Len(trace) :
           trace[k].ev \in {"reduce", "train_log"} =>
               Multiple(trace[k].it, args.gradient_accumulation_iters)
    /\ \A k \in 1..Len(train_logs) :
           Multiple(train_logs[k], args.gradient_accumulation_iters)

\* C24, amended: with logging enabled, the loss reduction is performed (in a
\* distributed run) and a training log record is appended (on the main
\* process) at every executed iteration, inside an accumulation group as
\* well as at its end; with logging disabled neither happens.
C24_LoggedEveryIteration ==
    iteration > 0 =>
        /\ IterationsOf("reduce") =
               IF args.log_every_iters > 0 /\ args.distributed
                 THEN IterationsFrom(LogCount) ELSE << >>
        /\ IterationsOf("train_log") =
               IF args.log_every_iters > 0 /\ is_main_process
                 THEN IterationsFrom(LogCount) ELSE << >>
        /\ train_log_file \o train_logs = IterationsOf("train_log")

\* the main process of a distributed run with groups of 2 that has reduced
\* the losses and appended a record at iteration 1, inside the first group
C24_Witness ==
    /\ args.distributed /\ is_main_process
    /\ args.gradient_accumulation_iters = 2
    /\ args.log_every_iters = 2
    /\ iteration = 1 /\ pc = "validation"
    /\ CountAt("reduce", 1) = 1
    /\ train_logs = << 1 >>
(* -------------------------- single-process runs ----------------------- *)
\* events of the trace that are collective operations or set them up
CollectiveTraceEvents ==
    {"init_process_group", "reduce", "gather", "broadcast", "barrier"}

\* C25: a single-process run initialises no process group and performs no
\* loss reduction, gather, broadcast or barrier; it is its own main process,
\* its validation result passes the size check, and the stop decision it
\* acts on is the one it computed from its own aggregate.
C25_SingleProcessNoCollectives ==
    ~args.distributed =>
        /\ ~pgInitialized
        /\ is_main_process
        /\ \A k \in 1..Len(trace) : trace[k].ev \notin CollectiveTraceEvents
        /\ failure /= "val_size"
        /\ (iteration > 0 /\ ValidationPassed(iteration)
              /\ Multiple(iteration, args.val_every_iters)) =>
               stop_training_flag = (val_avg_lddt_ca >= target_avg_lddt_ca_value)

\* a single-process run with logging that has returned after the early stop
\* of the validation cycle of iteration 2
C25_Witness ==
    /\ ~args.distributed
    /\ args.log_every_iters = 1
    /\ args.num_train_iters = 4
    /\ pc = "exit" /\ failure = "none"
    /\ iteration = 2
    /\ stop_training_flag
    /\ CountAt("validation", 1) = 1 /\ CountAt("validation", 2) = 1
    /\ train_log_file = << 1, 2 >>
(* ---------------------------- the log files ---------------------------- *)
\* C26: the log files are written only at multiples of log_every with
\* logging enabled; the training log file holds, once each and in the order
\* of the iterations, the records of the iterations up to the last executed
\* multiple of log_every (on the main process; nothing on another), and the
\* buffer holds the records after it; likewise the per-process log file and
\* buffer when per-process logs are saved; with log_every <= 0 no record is
\* buffered or written and no loss reduction is performed.
C26_LogsAtLogCadence ==
    /\ \A k \in 1..Len(trace) :
           trace[k].ev = "save_logs" =>
               /\ args.log_every_iters > 0
               /\ Multiple(trace[k].it, args.log_every_iters)
    /\ train_log_file = IF is_main_process THEN DueRecords ELSE << >>
    /\ process_log_file = IF args.save_process_logs THEN DueRecords ELSE << >>
    /\ train_log_file \o train_logs =
           IF is_main_process /\ args.log_every_iters > 0
             THEN IterationsFrom(LogCount) ELSE << >>
    /\ process_log_file \o process_logs =
           IF args.save_process_logs /\ args.log_every_iters > 0
             THEN IterationsFrom(LogCount) ELSE << >>
    /\ args.log_every_iters <= 0 =>
           /\ train_logs = << >> /\ train_log_file = << >>
           /\ process_logs = << >> /\ process_log_file = << >>
           /\ \A k \in 1..Len(trace) :
                  trace[k].ev \notin {"reduce", "train_log", "save_logs"}

\* a run resumed at iteration 2 with log_every = 4 that has written the
\* records of iterations 3 and 4 and buffers that of iteration 5
C26_Witness ==
    /\ num_prev_iters = 2
    /\ args.log_every_iters = 4
    /\ args.save_process_logs
    /\ is_main_process
    /\ iteration = 5 /\ pc = "validation"
    /\ train_log_file = << 3, 4 >> /\ train_logs = << 5 >>
    /\ process_log_file = << 3, 4 >> /\ process_logs = << 5 >>

\* a run with the default log_every = -1 that has returned
C26_WitnessDisabled ==
    /\ args.log_every_iters = 0 - 1
    /\ iteration = 4
    /\ pc = "exit" /\ failure = "none"
(* ------------------------- checkpoints and early stop ------------------ *)
\* the validation cycle of the current iteration has raised the stop flag and
\* the run is at or past the test that leaves the loop
StopRaised ==
    /\ iteration > 0
    /\ Multiple(iteration, args.val_every_iters)
    /\ stop_training_flag
    /\ pc \in {"stop_check", "barrier", "run_stop"}
          \/ (pc = "exit" /\ failure = "none")

\* C27: on the main process, with checkpoint_every > 0, when the validation
\* cycle of iteration i has raised the stop flag and the run reaches the test
\* that leaves the loop, the last checkpoint saved is that of iteration i,
\* tagged as a validation checkpoint and carrying the aggregate of that
\* cycle; every checkpoint saved is tagged exactly when its iteration is a
\* validation iteration, and an untagged one carries no metric.
C27_StopCheckpointSaved ==
    /\ (is_main_process /\ args.checkpoint_every_iters > 0 /\ StopRaised) =>
           /\ saved /= << >>
           /\ saved[Len(saved)] =
                  [ iteration       |-> iteration,
                    is_validation   |-> TRUE,
                    val_avg_lddt_ca |-> val_avg_lddt_ca ]
           /\ val_avg_lddt_ca >= target_avg_lddt_ca_value
    /\ \A k \in 1..Len(saved) :
           /\ saved[k].is_validation <=>
                  Multiple(saved[k].iteration, args.val_every_iters)
           /\ saved[k].is_validation => saved[k].val_avg_lddt_ca \in MetricValues
           /\ ~saved[k].is_validation => saved[k].val_avg_lddt_ca = 0
           /\ (k < Len(saved) /\ saved[k].is_validation) =>
                  saved[k].val_avg_lddt_ca < target_avg_lddt_ca_value

\* val_every = 4, checkpoint_every = 2: an untagged checkpoint at iteration
\* 2, a tagged one at iteration 4 and, after the untagged one of iteration 6,
\* the early stop at iteration 8 with its checkpoint
C27_Witness ==
    /\ is_main_process
    /\ args.val_every_iters = 4 /\ args.checkpoint_every_iters = 2
    /\ StopRaised /\ pc = "stop_check"
    /\ iteration = 8
    /\ Len(saved) = 4
    /\ ~saved[1].is_validation /\ saved[2].is_validation
    /\ ~saved[3].is_validation
    /\ saved[4].is_validation /\ saved[4].val_avg_lddt_ca = 9
(* --------------------- disabled intervals in parse_args ---------------- *)
\* every interval that is enabled satisfies what the validator requires of it
EnabledIntervalsDivisible(a) ==
    /\ Multiple(a.num_train_iters, a.gradient_accumulation_iters)
    /\ Multiple(a.val_every_iters, a.gradient_accumulation_iters)
    /\ Multiple(a.warmup_lr_iters, a.gradient_accumulation_iters)
    /\ a.checkpoint_every_iters > 0 =>
           /\ Multiple(a.checkpoint_every_iters, a.gradient_accumulation_iters)
           /\ Multiple(a.val_every_iters, a.checkpoint_every_iters)
    /\ a.log_every_iters > 0 =>
           /\ Multiple(a.log_every_iters, a.gradient_accumulation_iters)
           /\ Multiple(a.val_every_iters, a.log_every_iters)
           /\ a.checkpoint_every_iters > 0 =>
                  Multiple(a.checkpoint_every_iters, a.log_every_iters)

\* C28 as stated: a configuration with accumulation_iters >= 1 in which
\* logging or checkpointing is disabled (log_every <= 0, checkpoint_every
\* <= 0) and every enabled interval satisfies the divisibility invariant is
\* accepted by the validator.
C28_DisabledIntervalsAccepted ==
    (/\ Parsed
     /\ args.gradient_accumulation_iters >= 1
     /\ args.log_every_iters <= 0 \/ args.checkpoint_every_iters <= 0
     /\ EnabledIntervalsDivisible(args))
        => ~Rejected

\* the default --log_every_iters -1 and --checkpoint_every_iters 0 under
\* accumulation_iters = 2, rejected by the assertion of line 279
C28_Witness ==
    /\ Rejected
    /\ reported = {279}
    /\ args.log_every_iters = 0 - 1
    /\ args.checkpoint_every_iters = 0
    /\ args.gradient_accumulation_iters = 2
    /\ args.num_train_iters = 4 /\ args.val_every_iters = 2
    /\ args.warmup_lr_iters = 0
(* ------------------ the rate in force after a call --------------------- *)
\* C29: after every call of the scheduler, the first one after construction
\* (with an empty cache, whatever rate the optimizer held) included, every
\* parameter group holds the rate of the schedule at the iteration of the
\* call, and so does the cache of the last rate applied.
C29_RateInForce ==
    Called =>
        /\ \A g \in 1..NumParamGroups :
               param_groups[g] = lr_value_of(sched, lr_iteration)
        /\ prev_lr_value = << lr_value_of(sched, lr_iteration) >>

\* a first call, past the plateau, on an optimizer whose groups held another
\* rate, and a later call that found the rate already applied
C29_Witness ==
    /\ lr_calls = 2
    /\ ~lr_wrote
    /\ sched.init_lr = MaxLr /\ sched.final_lr = 1 /\ sched.init_lr_length = 3
    /\ lr_iteration = 5
    /\ param_groups = [g \in 1..NumParamGroups |-> 1]
    /\ prev_lr_value = << 1 >>
(* ------------------ events at accumulation-group boundaries ------------ *)
\* the validation cycle of the current iteration has run
ValidatedNow ==
    iteration > 0 /\ \E k \in 1..Len(trace) : trace[k] = Ev("validation", iteration)

\* the checkpoint of the current iteration has been saved
CheckpointedNow ==
    saved /= << >> /\ saved[Len(saved)].iteration = iteration

\* the optimizer has stepped on everything the backward passes produced, and
\* its last step was on a whole group
GroupApplied ==
    /\ pending = 0
    /\ grad_passes \in {0, args.gradient_accumulation_iters}
    /\ iteration > num_prev_iters => grad_passes = args.gradient_accumulation_iters

\* C30: when a validation cycle has run, when a checkpoint has been saved and
\* when the loop has been left (the range exhausted or the stop flag raised),
\* the iteration is a multiple of accumulation_iters (or no iteration was
\* executed), no backward pass is waiting for an optimizer step and the last
\* step applied a whole group.
C30_EventsAtGroupBoundary ==
    /\ \A k \in 1..Len(trace) :
           trace[k].ev \in {"validation", "checkpoint"} =>
               Multiple(trace[k].it, args.gradient_accumulation_iters)
    /\ \A k \in 1..Len(saved) :
           Multiple(saved[k].iteration, args.gradient_accumulation_iters)
    /\ ValidatedNow => GroupApplied
    /\ CheckpointedNow => GroupApplied
    /\ LoopLeft =>
           /\ GroupApplied
           /\ iteration > 0 =>
                  Multiple(iteration, args.gradient_accumulation_iters)

\* a run of groups of 2 resumed at iteration 2 that has validated and saved
\* at iteration 4 and left the loop there
C30_Witness ==
    /\ args.gradient_accumulation_iters = 2
    /\ num_prev_iters = 2
    /\ args.num_train_iters = 8
    /\ LoopLeft /\ iteration = 4
    /\ ValidatedNow /\ CheckpointedNow
    /\ pending = 0 /\ grad_passes = 2
(* ------------------- the log buffer at the end of the loop ------------- *)
\* C31 as stated: on the main process, with logging enabled, when the loop
\* has been left (the range exhausted or the stop flag raised) the buffer of
\* training log records is empty and the training log file holds the record
\* of every iteration the run executed.
C31_BufferEmptyAtLoopEnd ==
    (is_main_process /\ args.log_every_iters > 0 /\ LoopLeft) =>
        /\ train_logs = << >>
        /\ train_log_file = IterationsFrom(LogCount)

\* train_iters = 3 with val_every = log_every = 2: the run has returned with
\* the records of iterations 1 and 2 in the file and that of iteration 3
\* left in the buffer
C31_Witness ==
    /\ is_main_process
    /\ args.num_train_iters = 3
    /\ args.gradient_accumulation_iters = 1
    /\ args.val_every_iters = 2
    /\ args.log_every_iters = 2
    /\ num_prev_iters = 0
    /\ pc = "exit" /\ failure = "none"
    /\ iteration = 3
    /\ train_log_file = << 1, 2 >>
    /\ train_logs = << 3 >>
====
